---- MODULE Spec2Model ----
(***************************************************************************)
(* Model of the MyersCoreDiff engine (src/src/myers_core_diff.ts) and its  *)
(* two strategy plugins (src/src/strategy_patience.ts and the             *)
(* preserveStructure plugin).  Token arrays are 0-based in the source;     *)
(* here they are TLA+ sequences read through At, which also models a       *)
(* typed-array read outside the array (the value undefined).               *)
(***************************************************************************)
EXTENDS Integers, Sequences, FiniteSets, TLC

VARIABLES
    strategyRegistry,     \* static strategyRegistry: name -> registered function
    isDefaultRegistered,  \* static isDefaultRegistered
    engines,              \* the engines constructed so far, each with its buffers
    self,                 \* the engine the last call was made on
    oldTokens, newTokens, \* the string arrays of the call
    callDebug, options,   \* its debug flag and its options
    region,               \* the windows of a direct toolbox call
    pc,                   \* what the caller has done last
    script,               \* the script the call returned
    middleSnake,          \* the snake a direct _findMiddleSnake call returned
    guidedIterations,     \* main-loop iterations of a direct corridor call
    foundAnchors,         \* the anchor list of a direct anchor call
    optimalChain,         \* the chain a direct _mergeAndFilterAnchors call returned
    uniqueMatches,        \* the pairs a direct findUniqueMatches call returned
    scanIndex,            \* the position i of the scan of _findAnchors in progress
    usedNewPos,           \* the new positions the scan in progress has marked used
    guidedState           \* the loop variables of the corridor walk in progress

vars == <<strategyRegistry, isDefaultRegistered, engines, self, oldTokens, newTokens,
          callDebug, options, region, pc, script, middleSnake, guidedIterations,
          foundAnchors, optimalChain, uniqueMatches, scanIndex, usedNewPos, guidedState>>

\* enum DiffOperation
EQUAL == 0
ADD == 1
REMOVE == 2

\* The value of an out-of-range typed-array read, and its string form.
Undef == 0 - 1
UndefStr == "undefined"

Min(a, b) == IF a < b THEN a ELSE b
Max(a, b) == IF a > b THEN a ELSE b
Abs(a) == IF a < 0 THEN 0 - a ELSE a

\* tokens[i] for a 0-based index i.
At(arr, i) == IF i >= 0 /\ i < Len(arr) THEN arr[i + 1] ELSE Undef

\* idToString[id]
IdStr(ids, id) == IF id >= 0 /\ id < Len(ids) THEN ids[id + 1] ELSE UndefStr

----------------------------------------------------------------------------
\* _tokenize: ids are handed out in order of first occurrence, old first, so
\* idToString lists the distinct strings of old followed by new in the order
\* in which they first occur, and a token's id is the 0-based place of its
\* string in that list (tokenMap.get).

\* idToString once both loops have run over strs (old followed by new).
FirstOccurrences(strs) ==
    LET IsFirst(i) == \A j \in 1..(i - 1) : strs[j] # strs[i]
        StrsAt(firsts) == SubSeq([k \in 1..Len(firsts) |-> strs[firsts[k]]], 1, Len(firsts))
    IN StrsAt(SelectSeq([i \in 1..Len(strs) |-> i], IsFirst))

IndexOfStr(ids, s) == CHOOSE i \in 1..Len(ids) : ids[i] = s

\* hashedOld / hashedNew: the id of every token of one array.
TokenizeArr(strs, ids) ==
    SubSeq([i \in 1..Len(strs) |-> IndexOfStr(ids, strs[i]) - 1], 1, Len(strs))

Tokenize(oldStrs, newStrs) ==
    LET Both(ids) == [hashedOld |-> TokenizeArr(oldStrs, ids),
                      hashedNew |-> TokenizeArr(newStrs, ids), idToString |-> ids]
    IN Both(FirstOccurrences(oldStrs \o newStrs))

\* A diff region: the two token arrays, the id table, the two windows and the
\* debug flag handed down with them.
Region(c, os, oe, ns, ne) == [c EXCEPT !.os = os, !.oe = oe, !.ns = ns, !.ne = ne]

OldLen(c) == c.oe - c.os
NewLen(c) == c.ne - c.ns

----------------------------------------------------------------------------
\* _createAdditions / _createDeletions

\* CreateAdditions with the loop bound one short (the last token is lost).
CreateAdditionsShort(c, start, end) ==
    [i \in 1..Max(0, end - start - 1) |-> <<ADD, IdStr(c.ids, At(c.n, start + i - 1))>>]

CreateAdditions(c, start, end) ==
    [i \in 1..Max(0, end - start) |-> <<ADD, IdStr(c.ids, At(c.n, start + i - 1))>>]

CreateDeletions(c, start, end) ==
    [i \in 1..Max(0, end - start) |-> <<REMOVE, IdStr(c.ids, At(c.o, start + i - 1))>>]

\* A run of EQUAL operations read from old[start .. start+len).
EqualRun(c, start, len) ==
    [i \in 1..Max(0, len) |-> <<EQUAL, IdStr(c.ids, At(c.o, start + i - 1))>>]

----------------------------------------------------------------------------
\* _trimCommonPrefixSuffix

RECURSIVE PrefixLen(_, _, _)
PrefixLen(c, minLen, p) ==
    IF p < minLen /\ At(c.o, c.os + p) = At(c.n, c.ns + p)
    THEN PrefixLen(c, minLen, p + 1) ELSE p

RECURSIVE SuffixLen(_, _, _)
SuffixLen(c, remainingLen, s) ==
    IF s < remainingLen /\ At(c.o, c.oe - 1 - s) = At(c.n, c.ne - 1 - s)
    THEN SuffixLen(c, remainingLen, s + 1) ELSE s

\* TrimCommonPrefixSuffix that emits the prefix and suffix but leaves the
\* window where it was.
TrimWithoutAdvance(c) ==
    LET minLen == Min(OldLen(c), NewLen(c))
        Trimmed(prefixLen, suffixLen) ==
            [prefix |-> EqualRun(c, c.os, prefixLen),
             suffix |-> EqualRun(c, c.oe - suffixLen, suffixLen),
             newOldStart |-> c.os, newOldEnd |-> c.oe,
             newNewStart |-> c.ns, newNewEnd |-> c.ne]
        AfterPrefix(prefixLen) == Trimmed(prefixLen, SuffixLen(c, minLen - prefixLen, 0))
    IN AfterPrefix(PrefixLen(c, minLen, 0))

\* TrimCommonPrefixSuffix that reads the suffix one position too early.
TrimSuffixMisread(c) ==
    LET minLen == Min(OldLen(c), NewLen(c))
        Trimmed(prefixLen, suffixLen) ==
            [prefix |-> EqualRun(c, c.os, prefixLen),
             suffix |-> EqualRun(c, c.oe - suffixLen - 1, suffixLen),
             newOldStart |-> c.os + prefixLen, newOldEnd |-> c.oe - suffixLen,
             newNewStart |-> c.ns + prefixLen, newNewEnd |-> c.ne - suffixLen]
        AfterPrefix(prefixLen) == Trimmed(prefixLen, SuffixLen(c, minLen - prefixLen, 0))
    IN AfterPrefix(PrefixLen(c, minLen, 0))

\* TrimCommonPrefixSuffix that trims the prefix only.
TrimPrefixOnly(c) ==
    LET minLen == Min(OldLen(c), NewLen(c))
        Trimmed(prefixLen) ==
            [prefix |-> EqualRun(c, c.os, prefixLen),
             suffix |-> <<>>,
             newOldStart |-> c.os + prefixLen, newOldEnd |-> c.oe,
             newNewStart |-> c.ns + prefixLen, newNewEnd |-> c.ne]
    IN Trimmed(PrefixLen(c, minLen, 0))

TrimCommonPrefixSuffix(c) ==
    LET minLen == Min(OldLen(c), NewLen(c))
        Trimmed(prefixLen, suffixLen) ==
            [prefix |-> EqualRun(c, c.os, prefixLen),
             suffix |-> EqualRun(c, c.oe - suffixLen, suffixLen),
             newOldStart |-> c.os + prefixLen, newOldEnd |-> c.oe - suffixLen,
             newNewStart |-> c.ns + prefixLen, newNewEnd |-> c.ne - suffixLen]
        AfterPrefix(prefixLen) == Trimmed(prefixLen, SuffixLen(c, minLen - prefixLen, 0))
    IN AfterPrefix(PrefixLen(c, minLen, 0))

----------------------------------------------------------------------------
\* calculateDiff and buildValues: O(ND) Myers with a trace of the v array.

\* The diagonal run shared by calculateDiff and the forward middle-snake pass.
RECURSIVE FollowForward(_, _, _)
FollowForward(c, x, y) ==
    IF x < OldLen(c) /\ y < NewLen(c) /\ At(c.o, c.os + x) = At(c.n, c.ns + y)
    THEN FollowForward(c, x + 1, y + 1) ELSE x

\* An Int32Array read; outside the array the comparison operands are undefined.
VAt(v, i) == IF i \in DOMAIN v THEN v[i] ELSE Undef
\* a < b on two array reads (false when either is undefined).
VLess(a, b) == a # Undef /\ b # Undef /\ a < b

RECURSIVE BuildValuesLoop(_, _, _, _, _, _)
BuildValuesLoop(c, trace, d, x, y, result) ==
    IF d < 0 THEN result
    ELSE
      LET offset == OldLen(c) + NewLen(c)
          v == trace[d + 1]
          k == x - y
          kOffset == k + offset
          prevK == IF k = 0 - d \/ (k # d /\ VLess(VAt(v, kOffset - 1), VAt(v, kOffset + 1)))
                   THEN k + 1 ELSE k - 1
          Back(prevX, prevY, snakeX, snakeY, withSnake) ==
              LET withOp ==
                    IF d > 0
                    THEN IF prevX = snakeX
                         THEN <<<<ADD, IdStr(c.ids, At(c.n, c.ns + snakeY - 1))>>>> \o withSnake
                         ELSE <<<<REMOVE, IdStr(c.ids, At(c.o, c.os + snakeX - 1))>>>> \o withSnake
                    ELSE withSnake
              IN IF prevX <= 0 /\ prevY <= 0 THEN withOp
                 ELSE BuildValuesLoop(c, trace, d - 1, prevX, prevY, withOp)
          Snake(prevX, prevY, steps) ==
              Back(prevX, prevY, x - steps, y - steps,
                   EqualRun(c, c.os + x - steps, steps) \o result)
          Prev(prevX, prevY) == Snake(prevX, prevY, Max(0, Min(x - prevX, y - prevY)))
      IN Prev(VAt(v, prevK + offset), VAt(v, prevK + offset) - prevK)

buildValues(trace, c) ==
    BuildValuesLoop(c, trace, Len(trace) - 1, OldLen(c), NewLen(c), <<>>)

\* The loop over k with the comparison of the two neighbouring diagonals
\* inverted: it continues from the one that has come less far.
RECURSIVE CalculateDiffKTied(_, _, _, _)
CalculateDiffKTied(c, d, k, v) ==
    IF k > d THEN [done |-> FALSE, v |-> v]
    ELSE
      LET kOffset == k + OldLen(c) + NewLen(c)
          x0 == IF k = 0 - d \/ (k # d /\ v[kOffset - 1] >= v[kOffset + 1])
                THEN v[kOffset + 1] ELSE v[kOffset - 1] + 1
          Reached(x) ==
              IF x >= OldLen(c) /\ x - k >= NewLen(c)
              THEN [done |-> TRUE, v |-> [v EXCEPT ![kOffset] = x]]
              ELSE CalculateDiffKTied(c, d, k + 2, [v EXCEPT ![kOffset] = x])
      IN Reached(FollowForward(c, x0, x0 - k))

\* The loop over k for one d: whether the end point was reached, and v as
\* the loop leaves it.
RECURSIVE CalculateDiffK(_, _, _, _)
CalculateDiffK(c, d, k, v) ==
    IF k > d THEN [done |-> FALSE, v |-> v]
    ELSE
      LET kOffset == k + OldLen(c) + NewLen(c)
          x0 == IF k = 0 - d \/ (k # d /\ v[kOffset - 1] < v[kOffset + 1])
                THEN v[kOffset + 1] ELSE v[kOffset - 1] + 1
          Reached(x) ==
              IF x >= OldLen(c) /\ x - k >= NewLen(c)
              THEN [done |-> TRUE, v |-> [v EXCEPT ![kOffset] = x]]
              ELSE CalculateDiffK(c, d, k + 2, [v EXCEPT ![kOffset] = x])
      IN Reached(FollowForward(c, x0, x0 - k))

\* The loop over d: trace.push(v.slice()), then the loop over k.
RECURSIVE CalculateDiffLoop(_, _, _, _)
CalculateDiffLoop(c, d, v, trace) ==
    IF d > OldLen(c) + NewLen(c) THEN <<>>
    ELSE LET After(pushed, r) ==
                 IF r.done THEN buildValues(pushed, c)
                 ELSE CalculateDiffLoop(c, d + 1, r.v, pushed)
         IN After(Append(trace, v), CalculateDiffK(c, d, 0 - d, v))

calculateDiff(c) ==
    IF OldLen(c) = 0 THEN CreateAdditions(c, c.ns, c.ne)
    ELSE IF NewLen(c) = 0 THEN CreateDeletions(c, c.os, c.oe)
    ELSE CalculateDiffLoop(c, 0, [i \in 0..(2 * (OldLen(c) + NewLen(c)) + 1) |-> 0], <<>>)

----------------------------------------------------------------------------
\* A thrown Error, as the value of a call that does not return a script.
Thrown == <<<<Undef, "Error">>>>

\* a.concat(b) when either operand may be a call that threw.
Cat(a, b) == IF a = Thrown \/ b = Thrown THEN Thrown ELSE a \o b

----------------------------------------------------------------------------
\* _findMiddleSnake: bidirectional search over the two scratch buffers of the
\* instance it is called on.  An instance (this) is its two fields
\* forwardBuffer and backwardBuffer, each an Int32Array held as a sequence.

NoSnake == [found |-> FALSE, x |-> 0, y |-> 0, u |-> 0, v |-> 0]

\* private forwardBuffer = new Int32Array(0), backwardBuffer likewise
NewInstance == [forwardBuffer |-> <<>>, backwardBuffer |-> <<>>]

_validateInputs(c) ==
    /\ ~(c.os < 0 \/ c.oe < c.os \/ c.oe > Len(c.o))
    /\ ~(c.ns < 0 \/ c.ne < c.ns \/ c.ne > Len(c.n))

RECURSIVE FollowBackward(_, _, _)
FollowBackward(c, x2, y2) ==
    IF x2 < OldLen(c) /\ y2 < NewLen(c) /\ At(c.o, c.oe - 1 - x2) = At(c.n, c.ne - 1 - y2)
    THEN FollowBackward(c, x2 + 1, y2 + 1) ELSE x2

\* The forward loop over k for one d: the snake on which the two searches
\* met, or no snake, and forwardV as the loop leaves it.
RECURSIVE SnakeForward(_, _, _, _, _)
SnakeForward(c, d, k, forwardV, backwardV) ==
    IF k > d THEN [snake |-> NoSnake, forwardV |-> forwardV]
    ELSE
      LET N == OldLen(c)
          M == NewLen(c)
          offset == N + M
          delta == N - M
          isEven == (delta % 2) = 0
          offsetK == offset + k
          x0 == IF k = 0 - d \/ (k # d /\ forwardV[offsetK - 1] < forwardV[offsetK + 1])
                THEN forwardV[offsetK + 1] ELSE forwardV[offsetK - 1] + 1
          kBack == k - delta
          Meet(x, y, x2, y2, written) ==
              IF /\ ~isEven
                 /\ kBack >= 0 - (d - 1) /\ kBack <= d - 1
                 /\ x >= x2
                 /\ x2 >= 0 /\ y2 >= 0 /\ y2 <= M /\ y >= 0
              THEN [snake |-> [found |-> TRUE, x |-> x2, y |-> y2, u |-> x, v |-> y],
                    forwardV |-> written]
              ELSE SnakeForward(c, d, k + 2, written, backwardV)
          Reached(x) == Meet(x, x - k, N - backwardV[offset + kBack],
                             N - backwardV[offset + kBack] - k,
                             [forwardV EXCEPT ![offsetK] = IF x < N THEN x ELSE N])
      IN Reached(FollowForward(c, x0, x0 - k))

\* The backward loop over k for one d: the snake, or no snake, and backwardV
\* as the loop leaves it.
RECURSIVE SnakeBackward(_, _, _, _, _)
SnakeBackward(c, d, k, forwardV, backwardV) ==
    IF k > d THEN [snake |-> NoSnake, backwardV |-> backwardV]
    ELSE
      LET N == OldLen(c)
          M == NewLen(c)
          offset == N + M
          delta == N - M
          isEven == (delta % 2) = 0
          offsetK == offset + k
          x20 == IF k = 0 - d \/ (k # d /\ backwardV[offsetK - 1] < backwardV[offsetK + 1])
                 THEN backwardV[offsetK + 1] ELSE backwardV[offsetK - 1] + 1
          kForward == k + delta
          Meet(x2, x1, y1, u, v, written) ==
              IF /\ isEven
                 /\ kForward >= 0 - d /\ kForward <= d
                 /\ x1 >= u
                 /\ u >= 0 /\ v >= 0 /\ y1 >= v
              THEN [snake |-> [found |-> TRUE, x |-> u, y |-> v, u |-> x1, v |-> y1],
                    backwardV |-> written]
              ELSE SnakeBackward(c, d, k + 2, forwardV, written)
          Reached(x2, x1) == Meet(x2, x1, x1 - kForward, N - x2, M - (x2 - k),
                                  [backwardV EXCEPT ![offsetK] = IF x2 < N THEN x2 ELSE N])
      IN Reached(FollowBackward(c, x20, x20 - k), forwardV[offset + kForward])

\* The loop over d: the forward pass, then the backward pass.  The value is
\* the snake returned (or none) and the two views as the search leaves them.
RECURSIVE SnakeLoop(_, _, _, _)
SnakeLoop(c, d, forwardV, backwardV) ==
    IF d > OldLen(c) + NewLen(c)
    THEN [snake |-> NoSnake, forwardV |-> forwardV, backwardV |-> backwardV]
    ELSE
      LET AfterBackward(f, b) ==
              IF b.snake.found
              THEN [snake |-> b.snake, forwardV |-> f.forwardV, backwardV |-> b.backwardV]
              ELSE SnakeLoop(c, d + 1, f.forwardV, b.backwardV)
          AfterForward(f) ==
              IF f.snake.found
              THEN [snake |-> f.snake, forwardV |-> f.forwardV, backwardV |-> backwardV]
              ELSE AfterBackward(f, SnakeBackward(c, d, 0 - d, f.forwardV, backwardV))
      IN AfterForward(SnakeForward(c, d, 0 - d, forwardV, backwardV))

\* buffer.subarray(0, requiredSize): a view of the first requiredSize entries.
Subarray(buffer, requiredSize) == [i \in 0..(requiredSize - 1) |-> buffer[i + 1]]

\* A view whose entries are left as the buffer holds them.
FillSkipped(view, value) == view

\* view.fill(value)
Fill(view, value) == [i \in DOMAIN view |-> value]

\* The buffer after the writes made through a view of it.
Written(buffer, view) ==
    [i \in 1..Len(buffer) |-> IF (i - 1) \in DOMAIN view THEN view[i - 1] ELSE buffer[i]]

\* The instance once its buffers hold requiredSize entries: both are replaced
\* by zeroed arrays of twice that size when forwardBuffer is too short.
Grown(this, requiredSize) ==
    IF Len(this.forwardBuffer) < requiredSize
    THEN [forwardBuffer |-> [i \in 1..(2 * requiredSize) |-> 0],
          backwardBuffer |-> [i \in 1..(2 * requiredSize) |-> 0]]
    ELSE this

\* The snake returned (or none, for undefined) and the instance after the call.
_findMiddleSnake(this, c) ==
    IF ~_validateInputs(c) THEN [snake |-> NoSnake, this |-> this]
    ELSE LET requiredSize == 2 * (OldLen(c) + NewLen(c)) + 2
             Searched(grown, r) ==
                 [snake |-> r.snake,
                  this |-> [forwardBuffer |-> Written(grown.forwardBuffer, r.forwardV),
                            backwardBuffer |-> Written(grown.backwardBuffer, r.backwardV)]]
             Search(grown) ==
                 Searched(grown,
                          SnakeLoop(c, 0,
                                    Fill(Subarray(grown.forwardBuffer, requiredSize), 0),
                                    Fill(Subarray(grown.backwardBuffer, requiredSize), 0)))
         IN Search(Grown(this, requiredSize))

----------------------------------------------------------------------------
\* _isTokenRare: at most maxOccurrences occurrences in tokens[startPos..endPos)

_isTokenRare(token, tokens, startPos, endPos, maxOccurrences) ==
    Cardinality({i \in startPos..(endPos - 1) : At(tokens, i) = token}) <= maxOccurrences

\* First index i in [from, limit) holding tok, or -1 (the lookahead scans).
RECURSIVE ScanFor(_, _, _, _)
ScanFor(arr, i, limit, tok) ==
    IF i >= limit THEN 0 - 1
    ELSE IF At(arr, i) = tok THEN i ELSE ScanFor(arr, i + 1, limit, tok)

----------------------------------------------------------------------------
\* _guidedCalculateDiff: the corridor heuristic.

RarityLimit == 3
GuidedSlack == 100
StuckFloor == 50

AbsurdRatio(oldLen, newLen) ==
    /\ oldLen > 0 /\ newLen > 0
    /\ (oldLen > 100 * newLen \/ newLen > 100 * oldLen)
    /\ oldLen + newLen > 500

\* The result copied out one entry short.
GuidedResultTruncated(ops, maxSize) ==
    [i \in 1..(Len(ops) - 1) |-> IF i <= maxSize THEN ops[i] ELSE <<Undef, ops[i][2]>>]

\* The operations buffer holds maxSize entries; a write past it is dropped,
\* so the kind read back for such an entry is undefined.
GuidedResult(ops, maxSize) ==
    [i \in 1..Len(ops) |-> IF i <= maxSize THEN ops[i] ELSE <<Undef, ops[i][2]>>]

GuidedFlush(c, s) ==
    s.ops \o CreateDeletions(c, s.oldPos, c.oe) \o CreateAdditions(c, s.newPos, c.ne)

\* The operation chosen by one iteration that reaches the heuristics:
\* REMOVE advances oldPos, ADD advances newPos.
GuidedChoice(c, cfg, oldPos, newPos) ==
    LET oldLen == OldLen(c)
        newLen == NewLen(c)
        startDiagonal == c.ns - c.os
        adaptiveCorridorWidth == Min(cfg.corridorWidth, Max(10, (oldLen + newLen) \div 100))
        adaptiveLookahead == Min(cfg.lookahead, Max(5, (oldLen + newLen) \div 200))
        currentDiagonal == newPos - oldPos
        diagonalDistance == Abs(currentDiagonal - startDiagonal)
        tokenToRemove == At(c.o, oldPos)
        tokenToAdd == At(c.n, newPos)
        Rarity(isRemoveTokenRare, isAddTokenRare) ==
            IF isRemoveTokenRare /\ ~isAddTokenRare THEN ADD
            ELSE IF isAddTokenRare /\ ~isRemoveTokenRare THEN REMOVE
            ELSE IF (c.oe - oldPos) > (c.ne - newPos) THEN REMOVE ELSE ADD
        Lookahead(removeTokenFoundInNew, addTokenFoundInOld) ==
            IF removeTokenFoundInNew # 0 - 1 /\ addTokenFoundInOld = 0 - 1 THEN ADD
            ELSE IF addTokenFoundInOld # 0 - 1 /\ removeTokenFoundInNew = 0 - 1 THEN REMOVE
            ELSE IF removeTokenFoundInNew # 0 - 1 /\ addTokenFoundInOld # 0 - 1
                 THEN (IF removeTokenFoundInNew - newPos < addTokenFoundInOld - oldPos
                       THEN ADD ELSE REMOVE)
            ELSE Rarity(_isTokenRare(tokenToRemove, c.o, oldPos, c.oe, RarityLimit),
                        _isTokenRare(tokenToAdd, c.n, newPos, c.ne, RarityLimit))
    IN IF diagonalDistance > adaptiveCorridorWidth
       THEN (IF currentDiagonal > startDiagonal THEN REMOVE ELSE ADD)
       ELSE Lookahead(
              ScanFor(c.n, newPos + 1, Min(c.ne, newPos + adaptiveLookahead), tokenToRemove),
              ScanFor(c.o, oldPos + 1, Min(c.oe, oldPos + adaptiveLookahead), tokenToAdd))

\* One iteration without the stuck detection, and with a fast path for
\* matches that pushes its EQUAL and does not advance.
GuidedStepStalled(c, cfg, s) ==
    LET maxIterations == OldLen(c) + NewLen(c) + GuidedSlack
        iterations == s.iterations + 1
        progressed == s.oldPos > s.lastOldPos \/ s.newPos > s.lastNewPos
        s1 == IF progressed
              THEN [s EXCEPT !.iterations = iterations, !.lastProgressIteration = iterations,
                             !.lastOldPos = s.oldPos, !.lastNewPos = s.newPos]
              ELSE [s EXCEPT !.iterations = iterations]
        canRemove == s.oldPos < c.oe
        canAdd == s.newPos < c.ne
        removeOp == <<REMOVE, IdStr(c.ids, At(c.o, s.oldPos))>>
        addOp == <<ADD, IdStr(c.ids, At(c.n, s.newPos))>>
        equalOp == <<EQUAL, IdStr(c.ids, At(c.o, s.oldPos))>>
    IN IF iterations > maxIterations
       THEN [s EXCEPT !.iterations = iterations, !.ops = GuidedFlush(c, s), !.broke = TRUE]
       ELSE IF canRemove /\ canAdd /\ At(c.o, s.oldPos) = At(c.n, s.newPos)
            THEN [s1 EXCEPT !.ops = Append(s.ops, equalOp)]
       ELSE IF ~canRemove
            THEN [s1 EXCEPT !.ops = Append(s.ops, addOp), !.newPos = s.newPos + 1]
       ELSE IF ~canAdd
            THEN [s1 EXCEPT !.ops = Append(s.ops, removeOp), !.oldPos = s.oldPos + 1]
       ELSE IF GuidedChoice(c, cfg, s.oldPos, s.newPos) = REMOVE
            THEN [s1 EXCEPT !.ops = Append(s.ops, removeOp), !.oldPos = s.oldPos + 1]
       ELSE [s1 EXCEPT !.ops = Append(s.ops, addOp), !.newPos = s.newPos + 1]

\* One iteration of the main loop, from the state s of its variables: the
\* state after it, with broke set when the iteration left the loop by break.
GuidedStep(c, cfg, s) ==
    LET maxIterations == OldLen(c) + NewLen(c) + GuidedSlack
        stuckThreshold == Max(StuckFloor, maxIterations \div 10)
        iterations == s.iterations + 1
        progressed == s.oldPos > s.lastOldPos \/ s.newPos > s.lastNewPos
        s1 == IF progressed
              THEN [s EXCEPT !.iterations = iterations, !.lastProgressIteration = iterations,
                             !.lastOldPos = s.oldPos, !.lastNewPos = s.newPos]
              ELSE [s EXCEPT !.iterations = iterations]
        canRemove == s.oldPos < c.oe
        canAdd == s.newPos < c.ne
        removeOp == <<REMOVE, IdStr(c.ids, At(c.o, s.oldPos))>>
        addOp == <<ADD, IdStr(c.ids, At(c.n, s.newPos))>>
        equalOp == <<EQUAL, IdStr(c.ids, At(c.o, s.oldPos))>>
    IN IF iterations - s.lastProgressIteration > stuckThreshold
       THEN [s EXCEPT !.iterations = iterations, !.ops = GuidedFlush(c, s), !.broke = TRUE]
       ELSE IF iterations > maxIterations
            THEN [s EXCEPT !.iterations = iterations, !.ops = GuidedFlush(c, s),
                           !.broke = TRUE]
       ELSE IF canRemove /\ canAdd /\ At(c.o, s.oldPos) = At(c.n, s.newPos)
            THEN [s1 EXCEPT !.ops = Append(s.ops, equalOp),
                            !.oldPos = s.oldPos + 1, !.newPos = s.newPos + 1]
       ELSE IF ~canRemove
            THEN [s1 EXCEPT !.ops = Append(s.ops, addOp), !.newPos = s.newPos + 1]
       ELSE IF ~canAdd
            THEN [s1 EXCEPT !.ops = Append(s.ops, removeOp), !.oldPos = s.oldPos + 1]
       ELSE IF GuidedChoice(c, cfg, s.oldPos, s.newPos) = REMOVE
            THEN [s1 EXCEPT !.ops = Append(s.ops, removeOp), !.oldPos = s.oldPos + 1]
       ELSE [s1 EXCEPT !.ops = Append(s.ops, addOp), !.newPos = s.newPos + 1]

\* The main loop: iterations while a token is left on either side, until one
\* breaks.  The value is the state the loop ends in.
RECURSIVE GuidedLoop(_, _, _)
GuidedLoop(c, cfg, s) ==
    IF s.broke \/ ~(s.oldPos < c.oe \/ s.newPos < c.ne) THEN s
    ELSE GuidedLoop(c, cfg, GuidedStep(c, cfg, s))

\* The variables of the main loop before its first iteration.
GuidedStart(c) ==
    [oldPos |-> c.os, newPos |-> c.ns, iterations |-> 0, lastProgressIteration |-> 0,
     lastOldPos |-> c.os, lastNewPos |-> c.ns, ops |-> <<>>, broke |-> FALSE]

\* The walk of _guidedCalculateDiff: the script it returns and the number of
\* iterations of its main loop (none when the size-ratio shortcut is taken).
GuidedWalk(c, cfg) ==
    IF AbsurdRatio(OldLen(c), NewLen(c))
    THEN [ops |-> CreateDeletions(c, c.os, c.oe) \o CreateAdditions(c, c.ns, c.ne),
          iterations |-> 0]
    ELSE LET Left(s) == [ops |-> GuidedResult(s.ops, OldLen(c) + NewLen(c)),
                         iterations |-> s.iterations]
         IN Left(GuidedLoop(c, cfg, GuidedStart(c)))

_guidedCalculateDiff(c, cfg) == GuidedWalk(c, cfg).ops

----------------------------------------------------------------------------
\* _recursiveDiff: divide and conquer around the middle snake.

SnakeMatches(c, snake) ==
    \A i \in 0..(snake.u - snake.x - 1) :
        At(c.o, c.os + snake.x + i) = At(c.n, c.ns + snake.y + i)

\* The value of a toolbox call made on an instance: the script returned (or
\* Thrown) and the instance after the call.
Outcome(returned, this) == [script |-> returned, this |-> this]

RECURSIVE _recursiveDiff(_, _, _)
_recursiveDiff(this, c, cfg) ==
    LET oldLen == OldLen(c)
        newLen == NewLen(c)
    IN IF oldLen < 0 \/ newLen < 0 THEN Outcome(Thrown, this)
       ELSE IF oldLen = 0 /\ newLen = 0 THEN Outcome(<<>>, this)
       ELSE IF oldLen = 0 THEN Outcome(CreateAdditions(c, c.ns, c.ne), this)
       ELSE IF newLen = 0 THEN Outcome(CreateDeletions(c, c.os, c.oe), this)
       ELSE IF oldLen + newLen < cfg.quickDiffThreshold THEN Outcome(calculateDiff(c), this)
       ELSE
         LET Joined(snake, part1, part2) ==
                 Outcome(Cat(part1.script \o EqualRun(c, c.os + snake.x, snake.u - snake.x),
                             part2.script),
                         part2.this)
             Right(snake, part1) ==
                 IF part1.script = Thrown THEN part1
                 ELSE IF c.oe - (c.os + snake.u) < 0 \/ c.ne - (c.ns + snake.v) < 0
                      THEN Outcome(Thrown, part1.this)
                 ELSE Joined(snake, part1,
                             _recursiveDiff(part1.this,
                                            Region(c, c.os + snake.u, c.oe, c.ns + snake.v, c.ne),
                                            cfg))
             Around(found) ==
                 IF ~found.snake.found \/ found.snake.u - found.snake.x <= 0
                 THEN Outcome(_guidedCalculateDiff(c, cfg), found.this)
                 ELSE IF ~SnakeMatches(c, found.snake) THEN Outcome(calculateDiff(c), found.this)
                 ELSE IF found.snake.x < 0 \/ found.snake.y < 0 THEN Outcome(Thrown, found.this)
                 ELSE Right(found.snake,
                            _recursiveDiff(found.this,
                                           Region(c, c.os, c.os + found.snake.x,
                                                     c.ns, c.ns + found.snake.y),
                                           cfg))
         IN Around(_findMiddleSnake(this, c))

----------------------------------------------------------------------------
\* _findAnchors: rolling-hash anchor search.  The scan is modelled for
\* jumpStep >= 1.  minAnchorConfidence is held in hundredths (80 is 0.8) and
\* confidences are compared as exact fractions confNum / confDen.

HashP == 31
HashM == 1000000009
maxHuntJumps == 10

\* (hash * P + token) % M, which the code computes exactly in double
\* precision; here the product a * b (b < 32) is reduced modulo M while it is
\* formed from doublings of a, so that no intermediate value leaves the
\* 32-bit range.
MulMod(a, b) ==
    LET Twice(x) == (x + x) % HashM
        Term(x, bit) == IF (b \div bit) % 2 = 1 THEN x ELSE 0
        Plus(s, t) == (s + t) % HashM
        Sum(a2, a4, a8, a16) ==
            Plus(Plus(Plus(Plus(Term(a, 1), Term(a2, 2)), Term(a4, 4)), Term(a8, 8)),
                 Term(a16, 16))
        From8(a2, a4, a8) == Sum(a2, a4, a8, Twice(a8))
        From4(a2, a4) == From8(a2, a4, Twice(a4))
        From2(a2) == From4(a2, Twice(a2))
    IN IF a = 0 THEN 0 ELSE From2(Twice(a))

HashStep(hash, token) == (MulMod(hash, HashP) + token) % HashM

\* The hash of tokens.subarray(pos, pos + size): the loop over the chunk.
ChunkHash(arr, pos, size) ==
    LET end == Min(pos + size, Len(arr))
        from[k \in Nat, hash \in Nat] ==
            IF k >= end THEN hash ELSE from[k + 1, HashStep(hash, At(arr, k))]
    IN from[pos, 0]

\* newHashes.get(hash): the positions of the new window with that chunk hash,
\* in insertion (ascending) order.
PotentialStarts(c, cfg, hash) ==
    LET count == NewLen(c) - cfg.huntChunkSize + 1
        all == [j \in 1..Max(0, count) |-> c.ns + j - 1]
        Test(pos) == ChunkHash(c.n, pos, cfg.huntChunkSize) = hash
    IN SelectSeq(all, Test)

RECURSIVE HuntJump(_, _, _, _, _, _)
HuntJump(c, cfg, used, currentHuntOldPos, lastNewPos, j) ==
    IF j >= maxHuntJumps THEN [found |-> FALSE, oldPos |-> 0, newPos |-> 0]
    ELSE
      LET nextOldPos == currentHuntOldPos + j * cfg.jumpStep
      IN IF nextOldPos + cfg.huntChunkSize > c.oe
         THEN [found |-> FALSE, oldPos |-> 0, newPos |-> 0]
         ELSE
           LET Free(pos) == pos > lastNewPos /\ pos \notin used
               First(matches) ==
                   IF Len(matches) > 0
                   THEN [found |-> TRUE, oldPos |-> nextOldPos, newPos |-> matches[1]]
                   ELSE HuntJump(c, cfg, used, currentHuntOldPos, lastNewPos, j + 1)
           IN First(SelectSeq(PotentialStarts(c, cfg,
                                  ChunkHash(c.o, nextOldPos, cfg.huntChunkSize)), Free))

\* The number of successful hunts for a candidate.
RECURSIVE Hunt(_, _, _, _, _, _, _)
Hunt(c, cfg, used, chunkNum, currentHuntOldPos, lastNewPos, successfulHunts) ==
    IF ~(chunkNum * cfg.huntChunkSize < cfg.minMatchLength) THEN successfulHunts
    ELSE LET Jumped(r) ==
                 IF r.found
                 THEN Hunt(c, cfg, used, chunkNum + 1, r.oldPos + cfg.huntChunkSize,
                           r.newPos, successfulHunts + 1)
                 ELSE successfulHunts
         IN Jumped(HuntJump(c, cfg, used, currentHuntOldPos, lastNewPos, 0))

\* The extension without the comparison of the tokens: the match is taken to
\* run as far as the windows and the unused new positions let it.
ExtendLenUnverified(c, used, scanOldStart, scanNewStart) ==
    LET Extends(finalLength) ==
            /\ scanOldStart + finalLength < c.oe
            /\ scanNewStart + finalLength < c.ne
            /\ (scanNewStart + finalLength) \notin used
    IN CHOOSE finalLength \in 0..Max(0, Min(c.oe - scanOldStart, c.ne - scanNewStart)) :
           /\ ~Extends(finalLength)
           /\ \A shorter \in 0..(finalLength - 1) : Extends(shorter)

\* The while loop that extends a match: finalLength ends as the first count
\* at which the loop condition fails.
ExtendLen(c, used, scanOldStart, scanNewStart) ==
    LET Extends(finalLength) ==
            /\ scanOldStart + finalLength < c.oe
            /\ scanNewStart + finalLength < c.ne
            /\ (scanNewStart + finalLength) \notin used
            /\ At(c.o, scanOldStart + finalLength) = At(c.n, scanNewStart + finalLength)
    IN CHOOSE finalLength \in 0..Max(0, Min(c.oe - scanOldStart, c.ne - scanNewStart)) :
           /\ ~Extends(finalLength)
           /\ \A shorter \in 0..(finalLength - 1) : Extends(shorter)

MakeAnchor(c, cfg, scanOldStart, scanNewStart, finalLength) ==
    LET driftDistance == Abs(scanNewStart - scanOldStart)
        \* ten times maxExpectedDrift
        maxExpectedDrift10 == Max(1000, Min(OldLen(c), NewLen(c)))
        driftConfNum == Max(0, maxExpectedDrift10 - 10 * driftDistance)
        lengthConfNum == Min(finalLength, 2 * cfg.minMatchLength)
    IN [oldPos |-> scanOldStart, newPos |-> scanNewStart, length |-> finalLength,
        driftDistance |-> driftDistance,
        confNum |-> 3 * driftConfNum * 2 * cfg.minMatchLength
                      + 7 * lengthConfNum * maxExpectedDrift10,
        confDen |-> 10 * maxExpectedDrift10 * 2 * cfg.minMatchLength]

\* anchor.confidence >= minAnchorConfidence
ConfidentEnough(anchor, cfg) ==
    100 * anchor.confNum >= cfg.minAnchorConfidence * anchor.confDen

RECURSIVE TryStarts(_, _, _, _, _, _)
TryStarts(c, cfg, oldPos, starts, n, used) ==
    IF n > Len(starts) THEN [found |-> FALSE]
    ELSE IF starts[n] \in used THEN TryStarts(c, cfg, oldPos, starts, n + 1, used)
    ELSE
      LET Candidate(successfulHunts, finalLength) ==
              IF /\ 100 * successfulHunts * cfg.huntChunkSize
                        >= cfg.minAnchorConfidence * cfg.minMatchLength
                 /\ finalLength >= cfg.minMatchLength
              THEN [found |-> TRUE, anchor |-> MakeAnchor(c, cfg, oldPos, starts[n], finalLength)]
              ELSE TryStarts(c, cfg, oldPos, starts, n + 1, used)
      IN Candidate(Hunt(c, cfg, used, 1, oldPos + cfg.huntChunkSize, starts[n], 1),
                   ExtendLen(c, used, oldPos, starts[n]))

RECURSIVE ScanOld(_, _, _, _, _)
ScanOld(c, cfg, i, used, anchors) ==
    IF ~(i <= OldLen(c) - cfg.huntChunkSize) THEN anchors
    ELSE
      LET oldPos == c.os + i
          Tried(r) ==
              IF r.found
              THEN ScanOld(c, cfg,
                           ((r.anchor.oldPos - c.os) + r.anchor.length - cfg.jumpStep) + cfg.jumpStep,
                           used \cup {r.anchor.newPos + k : k \in 0..(r.anchor.length - 1)},
                           Append(anchors, r.anchor))
              ELSE ScanOld(c, cfg, i + cfg.jumpStep, used, anchors)
      IN Tried(TryStarts(c, cfg, oldPos,
                         PotentialStarts(c, cfg, ChunkHash(c.o, oldPos, cfg.huntChunkSize)),
                         1, used))

_findAnchors(c, cfg) ==
    IF OldLen(c) + NewLen(c) < cfg.quickDiffThreshold THEN <<>>
    ELSE IF cfg.huntChunkSize <= 0 \/ cfg.minMatchLength < cfg.huntChunkSize THEN <<>>
    ELSE
      LET Positional(a) == a.driftDistance <= cfg.positionalAnchorMaxDrift
          Floating(a) == a.driftDistance > cfg.positionalAnchorMaxDrift
          Confident(a) == ConfidentEnough(a, cfg)
          FilteredByType(anchors) ==
              IF cfg.anchorSearchMode = "positional" THEN SelectSeq(anchors, Positional)
              ELSE IF cfg.anchorSearchMode = "floating" THEN SelectSeq(anchors, Floating)
              ELSE anchors
      IN SelectSeq(FilteredByType(IF NewLen(c) >= cfg.huntChunkSize
                                  THEN ScanOld(c, cfg, 0, {}, <<>>) ELSE <<>>),
                   Confident)

----------------------------------------------------------------------------
\* _mergeAndFilterAnchors: heaviest non-overlapping chain by dynamic programming.

\* anchors.sort((a, b) => a.oldPos - b.oldPos), a stable sort.
RECURSIVE InsertByOldPos(_, _)
InsertByOldPos(sorted, a) ==
    IF sorted = <<>> THEN <<a>>
    ELSE IF sorted[Len(sorted)].oldPos <= a.oldPos THEN Append(sorted, a)
    ELSE Append(InsertByOldPos(SubSeq(sorted, 1, Len(sorted) - 1), a), sorted[Len(sorted)])

RECURSIVE SortByOldPos(_, _, _)
SortByOldPos(anchors, n, sorted) ==
    IF n > Len(anchors) THEN sorted
    ELSE SortByOldPos(anchors, n + 1, InsertByOldPos(sorted, anchors[n]))

\* The inner loop over j < i: the pair <<dp[i], prev[i]>> (prev is 1-based, 0 for none).
RECURSIVE ChainInner(_, _, _, _, _, _)
ChainInner(anchors, dp, i, j, best, prev) ==
    IF j >= i THEN <<best, prev>>
    ELSE
      LET anchorI == anchors[i]
          anchorJ == anchors[j]
          noOverlap == /\ anchorI.oldPos >= anchorJ.oldPos + anchorJ.length
                       /\ anchorI.newPos >= anchorJ.newPos + anchorJ.length
          monotone == anchorI.oldPos > anchorJ.oldPos \/ anchorI.newPos > anchorJ.newPos
      IN IF noOverlap /\ monotone /\ dp[j] + anchorI.length > best
         THEN ChainInner(anchors, dp, i, j + 1, dp[j] + anchorI.length, j)
         ELSE ChainInner(anchors, dp, i, j + 1, best, prev)

RECURSIVE ChainDP(_, _, _, _)
ChainDP(anchors, i, dp, prev) ==
    IF i > Len(anchors) THEN [dp |-> dp, prev |-> prev]
    ELSE LET Best(r) == ChainDP(anchors, i + 1, Append(dp, r[1]), Append(prev, r[2]))
         IN Best(ChainInner(anchors, dp, i, 1, anchors[i].length, 0))

\* The chain end taken as the last anchor, whatever the chains weigh.
BestChainEndLast(dp, i, best) == Len(dp)

RECURSIVE BestChainEnd(_, _, _)
BestChainEnd(dp, i, best) ==
    IF i > Len(dp) THEN best
    ELSE BestChainEnd(dp, i + 1, IF dp[i] > dp[best] THEN i ELSE best)

RECURSIVE ChainBack(_, _, _, _)
ChainBack(anchors, prev, currentIndex, chain) ==
    IF currentIndex = 0 THEN chain
    ELSE ChainBack(anchors, prev, prev[currentIndex], <<anchors[currentIndex]>> \o chain)

ChainHasNegativeGap(chain) ==
    \E i \in 2..Len(chain) :
        \/ chain[i].oldPos - (chain[i - 1].oldPos + chain[i - 1].length) < 0
        \/ chain[i].newPos - (chain[i - 1].newPos + chain[i - 1].length) < 0

\* _mergeAndFilterAnchors that only sorts: every anchor is kept.
_mergeAndFilterAnchorsSortOnly(anchorsIn) == SortByOldPos(anchorsIn, 1, <<>>)

_mergeAndFilterAnchors(anchorsIn) ==
    IF Len(anchorsIn) = 0 THEN <<>>
    ELSE
      LET Validated(reversed) ==
              IF ChainHasNegativeGap(reversed) THEN <<>> ELSE reversed
          Chain(anchors, t) ==
              Validated(ChainBack(anchors, t.prev, BestChainEnd(t.dp, 2, 1), <<>>))
          Sorted(anchors) == Chain(anchors, ChainDP(anchors, 1, <<>>, <<>>))
      IN Sorted(SortByOldPos(anchorsIn, 1, <<>>))

----------------------------------------------------------------------------
\* _processGap and _processWithAnchors

_processGap(this, c, cfg) ==
    LET gapOldLen == OldLen(c)
        gapNewLen == NewLen(c)
        gapSize == gapOldLen + gapNewLen
    IN IF gapSize = 0 THEN Outcome(<<>>, this)
       ELSE IF AbsurdRatio(gapOldLen, gapNewLen)
            THEN Outcome(CreateDeletions(c, c.os, c.oe) \o CreateAdditions(c, c.ns, c.ne), this)
       ELSE IF gapSize > cfg.hugeDiffThreshold THEN Outcome(_guidedCalculateDiff(c, cfg), this)
       ELSE _recursiveDiff(this, c, cfg)

\* The loop over the anchors and the final gap; result is the script so far
\* and the instance as the gaps processed so far have left it.
RECURSIVE ProcessAnchorsLoop(_, _, _, _, _, _, _)
ProcessAnchorsLoop(c, cfg, anchors, index, currentOldPos, currentNewPos, result) ==
    LET done == index > Len(anchors)
        Gap(gapOldEnd, gapNewEnd) ==
            LET After(withGap) ==
                    IF done THEN withGap
                    ELSE ProcessAnchorsLoop(c, cfg, anchors, index + 1,
                             gapOldEnd + anchors[index].length,
                             gapNewEnd + anchors[index].length,
                             Outcome(Cat(withGap.script,
                                         EqualRun(c, gapOldEnd, anchors[index].length)),
                                     withGap.this))
                Pushed(gapResult) == Outcome(Cat(result.script, gapResult.script), gapResult.this)
            IN After(IF gapOldEnd > currentOldPos \/ gapNewEnd > currentNewPos
                     THEN Pushed(_processGap(result.this,
                                             Region(c, currentOldPos, gapOldEnd,
                                                       currentNewPos, gapNewEnd), cfg))
                     ELSE result)
    IN IF result.script = Thrown THEN result
       ELSE Gap(IF done THEN c.oe ELSE anchors[index].oldPos,
                IF done THEN c.ne ELSE anchors[index].newPos)

_processWithAnchors(this, c, cfg, anchors) ==
    IF (c.os > c.oe \/ c.ns > c.ne) \/ Len(anchors) = 0 THEN _processGap(this, c, cfg)
    ELSE ProcessAnchorsLoop(c, cfg, anchors, 1, c.os, c.ns, Outcome(<<>>, this))

----------------------------------------------------------------------------
\* _findNextLocalAnchor, _processLocalGap, _calculateStableDiff

DefaultLocalLookahead == 50
DefaultLocalGap == 10
MaxLocalRadius == 10

NoLocalAnchor == [found |-> FALSE, oldPos |-> 0, newPos |-> 0]

\* First loop: the first offset in 1..lookahead on the main diagonal whose
\* tokens agree; the loop breaks as soon as either position leaves the range.
LocalDiagonal(c, lookahead) ==
    LET At0(offset) == [found |-> TRUE, oldPos |-> c.os + offset, newPos |-> c.ns + offset]
        First(hits) == IF hits = {} THEN NoLocalAnchor
                       ELSE At0(CHOOSE h \in hits : \A g \in hits : h <= g)
    IN First({offset \in 1..lookahead :
                 /\ c.os + offset < c.oe /\ c.ns + offset < c.ne
                 /\ At(c.o, c.os + offset) = At(c.n, c.ns + offset)})

\* Second loop: radius ascending from 1 while radius <= min(lookahead / 2, 10),
\* delta ascending from -radius to radius; the first in-range agreeing probe.
LocalNeighbourhood(c, lookahead) ==
    LET radii == {r \in 1..MaxLocalRadius : 2 * r <= lookahead}
        Hit(r, d) == /\ c.os + r < c.oe /\ c.ns + r + d >= c.ns /\ c.ns + r + d < c.ne
                     /\ At(c.o, c.os + r) = At(c.n, c.ns + r + d)
        Probe(radius, delta) ==
            [found |-> TRUE, oldPos |-> c.os + radius, newPos |-> c.ns + radius + delta]
        FirstDelta(radius, deltas) ==
            Probe(radius, CHOOSE d \in deltas : \A e \in deltas : d <= e)
        AtRadius(radius) == FirstDelta(radius, {d \in (0 - radius)..radius : Hit(radius, d)})
        FirstRadius(hitRadii) ==
            IF hitRadii = {} THEN NoLocalAnchor
            ELSE AtRadius(CHOOSE r \in hitRadii : \A q \in hitRadii : r <= q)
    IN FirstRadius({r \in radii : \E d \in (0 - r)..r : Hit(r, d)})

_findNextLocalAnchor(c, lookahead) ==
    LET Else(onDiagonal) == IF onDiagonal.found THEN onDiagonal
                            ELSE LocalNeighbourhood(c, lookahead)
    IN Else(LocalDiagonal(c, lookahead))

\* config.localLookahead || 50
LocalLookaheadOf(cfg) == IF cfg.localLookahead = 0 THEN DefaultLocalLookahead ELSE cfg.localLookahead

_processLocalGap(c, cfg) ==
    IF OldLen(c) + NewLen(c) < (IF cfg.localgap = 0 THEN DefaultLocalGap ELSE cfg.localgap)
    THEN CreateDeletions(c, c.os, c.oe) \o CreateAdditions(c, c.ns, c.ne)
    ELSE calculateDiff(c)

RECURSIVE StableLoop(_, _, _, _, _)
StableLoop(c, cfg, oldPos, newPos, result) ==
    IF oldPos < c.oe /\ newPos < c.ne
    THEN IF At(c.o, oldPos) = At(c.n, newPos)
         THEN StableLoop(c, cfg, oldPos + 1, newPos + 1,
                         Append(result, <<EQUAL, IdStr(c.ids, At(c.o, oldPos))>>))
         ELSE
           LET Gap(gapOldEnd, gapNewEnd) ==
                   StableLoop(c, cfg, gapOldEnd, gapNewEnd,
                              result \o _processLocalGap(Region(c, oldPos, gapOldEnd,
                                                                   newPos, gapNewEnd), cfg))
               UpTo(nextAnchor) ==
                   Gap(IF nextAnchor.found THEN nextAnchor.oldPos ELSE c.oe,
                       IF nextAnchor.found THEN nextAnchor.newPos ELSE c.ne)
           IN UpTo(_findNextLocalAnchor(Region(c, oldPos, c.oe, newPos, c.ne),
                                        LocalLookaheadOf(cfg)))
    ELSE result \o CreateDeletions(c, oldPos, c.oe) \o CreateAdditions(c, newPos, c.ne)

_calculateStableDiff(c, cfg) == StableLoop(c, cfg, c.os, c.ns, <<>>)

----------------------------------------------------------------------------
\* _strategycommonSES

\* _strategycommonSES with the preservePositions test inverted.
_strategycommonSESInverted(this, c, cfg) ==
    LET lakeSize == OldLen(c) + NewLen(c)
        With(anchors) ==
            IF Len(anchors) > 0 THEN _processWithAnchors(this, c, cfg, anchors)
            ELSE IF ~cfg.preservePositions THEN Outcome(_calculateStableDiff(c, cfg), this)
            ELSE _recursiveDiff(this, c, cfg)
    IN With(IF cfg.useAnchors /\ lakeSize > cfg.quickDiffThreshold
            THEN _mergeAndFilterAnchors(_findAnchors(c, cfg))
            ELSE <<>>)

_strategycommonSES(this, c, cfg) ==
    LET lakeSize == OldLen(c) + NewLen(c)
        With(anchors) ==
            IF Len(anchors) > 0 THEN _processWithAnchors(this, c, cfg, anchors)
            ELSE IF cfg.preservePositions THEN Outcome(_calculateStableDiff(c, cfg), this)
            ELSE _recursiveDiff(this, c, cfg)
    IN With(IF cfg.useAnchors /\ lakeSize > cfg.quickDiffThreshold
            THEN _mergeAndFilterAnchors(_findAnchors(c, cfg))
            ELSE <<>>)

----------------------------------------------------------------------------
\* The helpers the two plugins share (the same code in both plugin files):
\* _hasCommonTokens, _processStableGap (L3/L4), _processRangeWithLocalAnchors (L2).

_hasCommonTokens(c) ==
    \E i \in c.os..(c.oe - 1) : \E j \in c.ns..(c.ne - 1) : At(c.o, i) = At(c.n, j)

\* The overrides spread over the configuration for the micro-anchor search.
microAnchorConfig(cfg) ==
    [cfg EXCEPT !.minMatchLength = 2, !.quickDiffThreshold = 16, !.hugeDiffThreshold = 64,
                !.jumpStep = 1, !.huntChunkSize = 2, !.minAnchorConfidence = 70,
                !.useAnchors = TRUE]

RECURSIVE _processStableGap(_, _)
RECURSIVE StableGapLoop(_, _, _, _, _, _, _)

StableGapLoop(c, cfg, anchorChain, index, currentOldPos, currentNewPos, result) ==
    LET done == index > Len(anchorChain)
        Gap(gapOldEnd, gapNewEnd) ==
            LET After(subGapResult) ==
                    IF done THEN result \o subGapResult
                    ELSE StableGapLoop(c, cfg, anchorChain, index + 1,
                             gapOldEnd + anchorChain[index].length,
                             gapNewEnd + anchorChain[index].length,
                             result \o subGapResult
                                    \o EqualRun(c, gapOldEnd, anchorChain[index].length))
            IN After(IF gapOldEnd > currentOldPos \/ gapNewEnd > currentNewPos
                     THEN _processStableGap(
                              Region(c, currentOldPos, gapOldEnd, currentNewPos, gapNewEnd), cfg)
                     ELSE <<>>)
    IN Gap(IF done THEN c.oe ELSE anchorChain[index].oldPos,
           IF done THEN c.ne ELSE anchorChain[index].newPos)

_processStableGap(c, cfg) ==
    LET gapSize == OldLen(c) + NewLen(c)
        With(anchorChain) ==
            IF Len(anchorChain) > 0
            THEN StableGapLoop(c, cfg, anchorChain, 1, c.os, c.ns, <<>>)
            ELSE _guidedCalculateDiff(c, cfg)
    IN IF gapSize = 0 THEN <<>>
       ELSE With(IF _hasCommonTokens(c) /\ 2 * gapSize >= cfg.quickDiffThreshold
                 THEN _mergeAndFilterAnchors(_findAnchors(c, microAnchorConfig(cfg)))
                 ELSE <<>>)

RECURSIVE LocalAnchorsLoop(_, _, _, _, _)
LocalAnchorsLoop(c, cfg, oldPos, newPos, result) ==
    IF oldPos < c.oe /\ newPos < c.ne
    THEN
      LET Gap(nextAnchor, gapOldEnd, gapNewEnd) ==
              LET After(withGap) ==
                      IF nextAnchor.found
                      THEN LocalAnchorsLoop(c, cfg, nextAnchor.oldPos + 1, nextAnchor.newPos + 1,
                               Append(withGap,
                                      <<EQUAL, IdStr(c.ids, At(c.o, nextAnchor.oldPos))>>))
                      ELSE LocalAnchorsLoop(c, cfg, c.oe, c.ne, withGap)
              IN After(IF gapOldEnd > oldPos \/ gapNewEnd > newPos
                       THEN result \o _processStableGap(
                                Region(c, oldPos, gapOldEnd, newPos, gapNewEnd), cfg)
                       ELSE result)
          UpTo(nextAnchor) ==
              Gap(nextAnchor,
                  IF nextAnchor.found THEN nextAnchor.oldPos ELSE c.oe,
                  IF nextAnchor.found THEN nextAnchor.newPos ELSE c.ne)
      IN UpTo(_findNextLocalAnchor(Region(c, oldPos, c.oe, newPos, c.ne),
                                   LocalLookaheadOf(cfg)))
    ELSE result \o CreateDeletions(c, oldPos, c.oe) \o CreateAdditions(c, newPos, c.ne)

_processRangeWithLocalAnchors(c, cfg) == LocalAnchorsLoop(c, cfg, c.os, c.ns, <<>>)

----------------------------------------------------------------------------
\* Plugin patienceDiff: findUniqueMatches, findLIS, _patienceDiffRecursive.

CountIn(arr, start, end, token) ==
    Cardinality({i \in start..(end - 1) : At(arr, i) = token})

\* The pairs kept by findUniqueMatches, in the order of oldIndices (ascending
\* old position).  The last test reads newCounts at the new INDEX, as the code does.
findUniqueMatches(c) ==
    LET positions == [i \in 1..Max(0, OldLen(c)) |-> c.os + i - 1]
        NewIndexOf(token) == CHOOSE j \in c.ns..(c.ne - 1) : At(c.n, j) = token
        Keep(i) == /\ CountIn(c.o, c.os, c.oe, At(c.o, i)) = 1
                   /\ CountIn(c.n, c.ns, c.ne, At(c.o, i)) = 1
                   /\ CountIn(c.n, c.ns, c.ne, NewIndexOf(At(c.o, i))) = 1
        Pairs(kept) ==
            SubSeq([n \in 1..Len(kept) |->
                       [tokenId |-> At(c.o, kept[n]), oldIndex |-> kept[n],
                        newIndex |-> NewIndexOf(At(c.o, kept[n]))]],
                   1, Len(kept))
    IN Pairs(SelectSeq(positions, Keep))

\* The binary search of findLIS over tailsIndices[0 .. size) (0-based result).
RECURSIVE LISSearch(_, _, _, _, _)
LISSearch(pairs, tailsIndices, currentNewIndex, left, right) ==
    IF ~(left < right) THEN left
    ELSE LET mid == (left + right) \div 2
         IN IF pairs[tailsIndices[mid + 1]].newIndex < currentNewIndex
            THEN LISSearch(pairs, tailsIndices, currentNewIndex, mid + 1, right)
            ELSE LISSearch(pairs, tailsIndices, currentNewIndex, left, mid)

\* tailsIndices and predecessors hold 1-based pair numbers, 0 for none.
RECURSIVE LISLoop(_, _, _, _, _)
LISLoop(pairs, i, tailsIndices, predecessors, size) ==
    IF i > Len(pairs) THEN [tails |-> tailsIndices, preds |-> predecessors, size |-> size]
    ELSE
      LET Place(left) ==
              LISLoop(pairs, i + 1,
                      [tailsIndices EXCEPT ![left + 1] = i],
                      [predecessors EXCEPT ![i] = IF left > 0 THEN tailsIndices[left] ELSE 0],
                      IF left = size THEN size + 1 ELSE size)
      IN Place(LISSearch(pairs, tailsIndices, pairs[i].newIndex, 0, size))

RECURSIVE LISBack(_, _, _, _)
LISBack(pairs, predecessors, current, lisResult) ==
    IF current = 0 THEN lisResult
    ELSE LISBack(pairs, predecessors, predecessors[current], <<pairs[current]>> \o lisResult)

\* findLIS that keeps every unique match, increasing or not.
findLISAll(uniqueMatchPairs) == uniqueMatchPairs

findLIS(uniqueMatchPairs) ==
    IF Len(uniqueMatchPairs) = 0 THEN <<>>
    ELSE
      LET n == Len(uniqueMatchPairs)
          Back(t) == LISBack(uniqueMatchPairs, t.preds, t.tails[t.size], <<>>)
      IN Back(LISLoop(uniqueMatchPairs, 1, [i \in 1..n |-> 1], [i \in 1..n |-> 0], 0))

RECURSIVE _patienceDiffRecursive(_, _)
RECURSIVE PatienceLoop(_, _, _, _, _, _, _)

PatienceLoop(c, cfg, lisAnchors, index, currentOld, currentNew, result) ==
    LET done == index > Len(lisAnchors)
        Gap(gapOldEnd, gapNewEnd) ==
            LET After(withGap) ==
                    IF done THEN withGap
                    ELSE PatienceLoop(c, cfg, lisAnchors, index + 1, gapOldEnd + 1, gapNewEnd + 1,
                             Append(withGap, <<EQUAL, IdStr(c.ids, lisAnchors[index].tokenId)>>))
            IN After(IF gapOldEnd > currentOld \/ gapNewEnd > currentNew
                     THEN result \o _patienceDiffRecursive(
                              Region(c, currentOld, gapOldEnd, currentNew, gapNewEnd), cfg)
                     ELSE result)
    IN Gap(IF done THEN c.oe ELSE lisAnchors[index].oldIndex,
           IF done THEN c.ne ELSE lisAnchors[index].newIndex)

_patienceDiffRecursive(c, cfg) ==
    IF c.os >= c.oe /\ c.ns >= c.ne THEN <<>>
    ELSE IF c.os >= c.oe THEN CreateAdditions(c, c.ns, c.ne)
    ELSE IF c.ns >= c.ne THEN CreateDeletions(c, c.os, c.oe)
    ELSE LET With(lisAnchors) ==
                 IF Len(lisAnchors) = 0 THEN _processRangeWithLocalAnchors(c, cfg)
                 ELSE PatienceLoop(c, cfg, lisAnchors, 1, c.os, c.ns, <<>>)
         IN With(findLIS(findUniqueMatches(c)))

_strategyPatienceDiff(c, cfg) == _patienceDiffRecursive(c, cfg)

----------------------------------------------------------------------------
\* Plugin preserveStructure.

preserveStructureL1AnchorConfig(cfg) ==
    [cfg EXCEPT !.minMatchLength = 30, !.huntChunkSize = 10, !.jumpStep = 10,
                !.minAnchorConfidence = 75, !.useAnchors = TRUE,
                !.quickDiffThreshold = 32, !.hugeDiffThreshold = 128,
                !.anchorSearchMode = "floating", !.preservePositions = TRUE]

RECURSIVE PreserveLoop(_, _, _, _, _, _, _)
PreserveLoop(c, cfg, anchorChain, index, currentOldPos, currentNewPos, result) ==
    LET done == index > Len(anchorChain)
        Gap(gapOldEnd, gapNewEnd) ==
            LET After(gapResult) ==
                    IF done THEN result \o gapResult
                    ELSE PreserveLoop(c, cfg, anchorChain, index + 1,
                             gapOldEnd + anchorChain[index].length,
                             gapNewEnd + anchorChain[index].length,
                             result \o gapResult
                                    \o EqualRun(c, gapOldEnd, anchorChain[index].length))
            IN After(IF gapOldEnd > currentOldPos \/ gapNewEnd > currentNewPos
                     THEN _processRangeWithLocalAnchors(
                              Region(c, currentOldPos, gapOldEnd, currentNewPos, gapNewEnd), cfg)
                     ELSE <<>>)
    IN Gap(IF done THEN c.oe ELSE anchorChain[index].oldPos,
           IF done THEN c.ne ELSE anchorChain[index].newPos)

\* _strategyPreserveStructure that stops after the last global anchor (the
\* trailing gap is never processed).
_strategyPreserveStructureNoTail(c, cfg) ==
    LET lakeSize == OldLen(c) + NewLen(c)
        UpTo(anchorChain, last) ==
            PreserveLoop(Region(c, c.os, last.oldPos + last.length,
                                   c.ns, last.newPos + last.length),
                         cfg, anchorChain, 1, c.os, c.ns, <<>>)
        With(anchorChain) ==
            IF Len(anchorChain) > 0
            THEN UpTo(anchorChain, anchorChain[Len(anchorChain)])
            ELSE _processRangeWithLocalAnchors(c, cfg)
    IN With(IF cfg.useAnchors /\ lakeSize > cfg.quickDiffThreshold
            THEN _mergeAndFilterAnchors(
                     _findAnchors(c, preserveStructureL1AnchorConfig(cfg)))
            ELSE <<>>)

_strategyPreserveStructure(c, cfg) ==
    LET lakeSize == OldLen(c) + NewLen(c)
        With(anchorChain) ==
            IF Len(anchorChain) > 0
            THEN PreserveLoop(c, cfg, anchorChain, 1, c.os, c.ns, <<>>)
            ELSE _processRangeWithLocalAnchors(c, cfg)
    IN With(IF cfg.useAnchors /\ lakeSize > cfg.quickDiffThreshold
            THEN _mergeAndFilterAnchors(
                     _findAnchors(c, preserveStructureL1AnchorConfig(cfg)))
            ELSE <<>>)

----------------------------------------------------------------------------
\* The dispatcher diff(), the strategy registry and the option records.

defaultOptions ==
    [diffStrategyName |-> "commonSES", minMatchLength |-> 30, quickDiffThreshold |-> 64,
     hugeDiffThreshold |-> 256, lookahead |-> 10, corridorWidth |-> 10,
     skipTrimming |-> FALSE, jumpStep |-> 30, huntChunkSize |-> 10,
     minAnchorConfidence |-> 80, useAnchors |-> TRUE, localgap |-> 10,
     preservePositions |-> TRUE, localLookahead |-> 50, anchorSearchMode |-> "combo",
     positionalAnchorMaxDrift |-> 20]

\* The values held by the registry: a plugin function, and for the built-in
\* strategy the instance it was bound to (bind(instance)); 0 for a plain
\* function, which has no bound instance.
Bound(fn, instance) == [fn |-> fn, this |-> instance]

\* strategyFn(this, hashedOld, ..., config, debug) for a registered plugin:
\* the script returned and the instances after the call.  The built-in
\* strategy runs the toolbox of the instance it is bound to; the plugins take
\* the engine as an argument and call none of its methods that use the buffers.
CallStrategy(strategyFn, instances, c, cfg) ==
    LET OnBound(r) ==
            [script |-> r.script, instances |-> [instances EXCEPT ![strategyFn.this] = r.this]]
    IN CASE strategyFn.fn = "_strategycommonSES" ->
                OnBound(_strategycommonSES(instances[strategyFn.this], c, cfg))
         [] strategyFn.fn = "_strategyPatienceDiff" ->
                [script |-> _strategyPatienceDiff(c, cfg), instances |-> instances]
         [] strategyFn.fn = "_strategyPreserveStructure" ->
                [script |-> _strategyPreserveStructure(c, cfg), instances |-> instances]

\* diff that runs the default strategy when the name is not registered.
diffDefaulting(instances, oldStrs, newStrs, debug, config, registry) ==
    LET strategyFn == IF config.diffStrategyName \in DOMAIN registry
                      THEN registry[config.diffStrategyName]
                      ELSE Bound("_strategycommonSES", 1)
        Joined(prefix, body, suffix) ==
            [script |-> Cat(Cat(prefix, body.script), suffix), instances |-> body.instances]
        Run(prefix, c, suffix) ==
            Joined(prefix, CallStrategy(strategyFn, instances, c, config), suffix)
        Trim(whole, trimmed) ==
            Run(IF config.skipTrimming THEN <<>> ELSE trimmed.prefix,
                IF config.skipTrimming THEN whole
                ELSE Region(whole, trimmed.newOldStart, trimmed.newOldEnd,
                                   trimmed.newNewStart, trimmed.newNewEnd),
                IF config.skipTrimming THEN <<>> ELSE trimmed.suffix)
        Whole(whole) == Trim(whole, TrimCommonPrefixSuffix(whole))
        Tokens(t) == Whole([o |-> t.hashedOld, n |-> t.hashedNew, ids |-> t.idToString,
                            os |-> 0, oe |-> Len(t.hashedOld),
                            ns |-> 0, ne |-> Len(t.hashedNew), debug |-> debug])
    IN Tokens(Tokenize(oldStrs, newStrs))

\* diff that leaves the inputs untrimmed when it is traced.
diffTracedUntrimmed(instances, oldStrs, newStrs, debug, config, registry) ==
    LET Joined(prefix, body, suffix) ==
            [script |-> Cat(Cat(prefix, body.script), suffix), instances |-> body.instances]
        Run(prefix, c, suffix) ==
            IF config.diffStrategyName \notin DOMAIN registry
            THEN [script |-> Thrown, instances |-> instances]
            ELSE Joined(prefix,
                        CallStrategy(registry[config.diffStrategyName], instances, c, config),
                        suffix)
        Trim(whole, trimmed) ==
            Run(IF config.skipTrimming \/ debug THEN <<>> ELSE trimmed.prefix,
                IF config.skipTrimming \/ debug THEN whole
                ELSE Region(whole, trimmed.newOldStart, trimmed.newOldEnd,
                                   trimmed.newNewStart, trimmed.newNewEnd),
                IF config.skipTrimming \/ debug THEN <<>> ELSE trimmed.suffix)
        Whole(whole) == Trim(whole, TrimCommonPrefixSuffix(whole))
        Tokens(t) == Whole([o |-> t.hashedOld, n |-> t.hashedNew, ids |-> t.idToString,
                            os |-> 0, oe |-> Len(t.hashedOld),
                            ns |-> 0, ne |-> Len(t.hashedNew), debug |-> debug])
    IN Tokens(Tokenize(oldStrs, newStrs))

\* MyersCoreDiff.diff, called on any instance: the returned script (or Thrown)
\* and the instances after the call.  The tokenizer and the trimmer use no field
\* of the instance; debug is handed down with the region and read by no
\* statement but the tracing, which __DEV__ = false compiles away.
diff(instances, oldStrs, newStrs, debug, config, registry) ==
    LET Joined(prefix, body, suffix) ==
            [script |-> Cat(Cat(prefix, body.script), suffix), instances |-> body.instances]
        Run(prefix, c, suffix) ==
            IF config.diffStrategyName \notin DOMAIN registry
            THEN [script |-> Thrown, instances |-> instances]
            ELSE Joined(prefix,
                        CallStrategy(registry[config.diffStrategyName], instances, c, config),
                        suffix)
        Trim(whole, trimmed) ==
            Run(IF config.skipTrimming THEN <<>> ELSE trimmed.prefix,
                IF config.skipTrimming THEN whole
                ELSE Region(whole, trimmed.newOldStart, trimmed.newOldEnd,
                                   trimmed.newNewStart, trimmed.newNewEnd),
                IF config.skipTrimming THEN <<>> ELSE trimmed.suffix)
        Whole(whole) == Trim(whole, TrimCommonPrefixSuffix(whole))
        Tokens(t) == Whole([o |-> t.hashedOld, n |-> t.hashedNew, ids |-> t.idToString,
                            os |-> 0, oe |-> Len(t.hashedOld),
                            ns |-> 0, ne |-> Len(t.hashedNew), debug |-> debug])
    IN Tokens(Tokenize(oldStrs, newStrs))

\* MyersCoreDiff.registerStrategy
registerStrategy(registry, name, strategyFn) ==
    [n \in (DOMAIN registry) \cup {name} |-> IF n = name THEN strategyFn ELSE registry[n]]

----------------------------------------------------------------------------
\* Bounds of the model and the inputs drawn for a call.

MaxLen == 3

TokenStrings == {"a", "b"}

StrategyNames == {"commonSES", "patienceDiff", "preserveStructure"}

TokenArrays == UNION {[1..k -> TokenStrings] : k \in 0..MaxLen}

\* Longer inputs: a moved token, interleaved changes, a block swap, a
\* three-symbol rotation, and a repetitive run displaced by one position (long
\* enough for the micro-anchor search).

Scenarios ==
    {<<<<"a", "b", "x">>, <<"x", "a", "b">>>>,
     <<<<"a", "b", "c", "d", "e">>, <<"a", "X", "c", "d", "Y", "e">>>>,
     <<<<"A", "B", "C", "D">>, <<"A", "C", "D", "B">>>>,
     <<<<"a", "b", "c">>, <<"b", "a", "b">>>>,
     <<<<"a", "b", "c", "a">>, <<"c", "a", "b", "c">>>>,
     <<<<"x", "y", "a", "b", "a", "b", "a", "b", "a", "a">>,
       <<"z", "a", "b", "a", "b", "a", "b", "a", "a", "w", "w">>>>}

Inputs == (TokenArrays \X TokenArrays) \cup Scenarios

\* Option records: the defaults, and settings small enough for short inputs to
\* reach the precise, recursive, anchored, corridor and micro-anchor paths.
OptionProfiles ==
    {defaultOptions,
     [defaultOptions EXCEPT !.preservePositions = FALSE, !.positionalAnchorMaxDrift = 0],
     [defaultOptions EXCEPT !.preservePositions = FALSE, !.quickDiffThreshold = 0,
                            !.useAnchors = FALSE],
     [defaultOptions EXCEPT !.preservePositions = FALSE, !.quickDiffThreshold = 0,
                            !.minMatchLength = 1, !.huntChunkSize = 1, !.jumpStep = 1,
                            !.minAnchorConfidence = 0],
     [defaultOptions EXCEPT !.quickDiffThreshold = 2, !.hugeDiffThreshold = 0,
                            !.minMatchLength = 2, !.huntChunkSize = 1, !.jumpStep = 1,
                            !.lookahead = 2, !.corridorWidth = 1],
     [defaultOptions EXCEPT !.quickDiffThreshold = 2, !.localgap = 1,
                            !.localLookahead = 1]}

OptionRecords ==
    {[p EXCEPT !.diffStrategyName = s, !.skipTrimming = t] :
        p \in OptionProfiles, s \in StrategyNames, t \in BOOLEAN}

----------------------------------------------------------------------------
\* The state machine: an engine has been constructed (so commonSES is
\* registered); plugins may be registered; one diff call is made.

\* A run of 44 distinct tokens displaced by three positions, long enough for
\* the global anchor search of preserveStructure (minMatchLength 30), which
\* the call makes with every anchor counted as floating.
LongRun == [i \in 1..44 |-> ToString(i)]

LongScenario == <<LongRun \o <<"p">>, <<"y", "y", "z">> \o LongRun \o <<"q">>>>

LongOptionRecords ==
    {r \in OptionRecords :
        r.diffStrategyName = "preserveStructure" /\ r.positionalAnchorMaxDrift = 0}

\* The calls made: every input with every option record, and the long scenario.
Calls == (Inputs \X OptionRecords) \cup ({LongScenario} \X LongOptionRecords)

\* ensureDefaultStrategyRegistered(instance): the registry after the call.
ensureDefaultStrategyRegistered(registry, registered, instance) ==
    IF ~registered
    THEN registerStrategy(registry, "commonSES", Bound("_strategycommonSES", instance))
    ELSE registry

\* The windows of a dispatcher call, which takes none.
NoRegion == [os |-> 0, oe |-> 0, ns |-> 0, ne |-> 0]

Init ==
    /\ strategyRegistry = ensureDefaultStrategyRegistered(<<>>, FALSE, 1)
    /\ isDefaultRegistered = TRUE
    /\ engines = <<NewInstance>>
    /\ self = 1
    /\ \E call \in Calls :
          oldTokens = call[1][1] /\ newTokens = call[1][2] /\ options = call[2]
    /\ callDebug \in BOOLEAN
    /\ region = NoRegion
    /\ pc = "ready"
    /\ script = <<>>
    /\ middleSnake = NoSnake
    /\ guidedIterations = 0
    /\ foundAnchors = <<>>
    /\ optimalChain = <<>>
    /\ uniqueMatches = <<>>
    /\ scanIndex = 0
    /\ usedNewPos = {}
    /\ guidedState = GuidedStart(NoRegion)

registerPatienceDiffStrategy ==
    /\ pc = "ready"
    /\ strategyRegistry' =
           registerStrategy(strategyRegistry, "patienceDiff", Bound("_strategyPatienceDiff", 0))
    /\ UNCHANGED <<isDefaultRegistered, engines, self, oldTokens, newTokens, callDebug, options,
                   region, pc, script, middleSnake, guidedIterations,
                   foundAnchors, optimalChain, uniqueMatches, scanIndex, usedNewPos, guidedState>>

registerPreserveStructureStrategy ==
    /\ pc = "ready"
    /\ strategyRegistry' =
           registerStrategy(strategyRegistry, "preserveStructure",
                            Bound("_strategyPreserveStructure", 0))
    /\ UNCHANGED <<isDefaultRegistered, engines, self, oldTokens, newTokens, callDebug, options,
                   region, pc, script, middleSnake, guidedIterations,
                   foundAnchors, optimalChain, uniqueMatches, scanIndex, usedNewPos, guidedState>>

Diff ==
    /\ pc = "ready"
    /\ \E result \in {diff(engines, oldTokens, newTokens, callDebug, options, strategyRegistry)} :
          /\ engines' = result.instances
          /\ IF result.script = Thrown
             THEN pc' = "threw" /\ script' = <<>>
             ELSE pc' = "returned" /\ script' = result.script
    /\ UNCHANGED <<strategyRegistry, isDefaultRegistered, self, oldTokens, newTokens, callDebug,
                   options, region, middleSnake, guidedIterations,
                   foundAnchors, optimalChain, uniqueMatches, scanIndex, usedNewPos, guidedState>>

Next == registerPatienceDiffStrategy \/ registerPreserveStructureStrategy \/ Diff

Spec == Init /\ [][Next]_vars

----------------------------------------------------------------------------
\* The toolbox called directly, as the direct tests do: an engine is
\* constructed, the inputs are tokenized, and one of _recursiveDiff,
\* _guidedCalculateDiff and _findMiddleSnake is called on a region.

\* The windows [os, oe) and [ns, ne) that are valid for the two arrays.
ValidRegions(oldStrs, newStrs) ==
    {r \in [os : 0..Len(oldStrs), oe : 0..Len(oldStrs),
            ns : 0..Len(newStrs), ne : 0..Len(newStrs)] : r.os <= r.oe /\ r.ns <= r.ne}

WholeRegion(oldStrs, newStrs) ==
    [os |-> 0, oe |-> Len(oldStrs), ns |-> 0, ne |-> Len(newStrs)]

\* The configurations of the direct calls: the defaults, the recursion forced
\* on every region, and a narrow corridor with a short lookahead.
ToolboxOptions ==
    {defaultOptions,
     [defaultOptions EXCEPT !.quickDiffThreshold = 0],
     [defaultOptions EXCEPT !.quickDiffThreshold = 2, !.lookahead = 2, !.corridorWidth = 1]}

\* The region of the call in progress, over the tokenized arrays.
CallRegion ==
    LET Windowed(t) ==
            [o |-> t.hashedOld, n |-> t.hashedNew, ids |-> t.idToString,
             os |-> region.os, oe |-> region.oe, ns |-> region.ns, ne |-> region.ne,
             debug |-> callDebug]
    IN Windowed(Tokenize(oldTokens, newTokens))

\* The size-ratio shortcut of the corridor heuristic: one old token against
\* 500 new ones (a ratio above 100 and more than 500 tokens in all).
RatioScenario ==
    <<<<"a">>, [i \in 1..500 |-> IF i = 250 THEN "a" ELSE IF i < 250 THEN "x" ELSE "y"]>>

ToolboxMethods == {"_recursiveDiff", "_guidedCalculateDiff", "_findMiddleSnake"}

\* The direct calls made: each method on every valid region of the short
\* inputs and on the whole of the longer scenarios, and the corridor
\* heuristic on the size-ratio scenario.  pc is the method about to be called.
ToolboxInit ==
    /\ strategyRegistry = ensureDefaultStrategyRegistered(<<>>, FALSE, 1)
    /\ isDefaultRegistered = TRUE
    /\ engines = <<NewInstance>>
    /\ self = 1
    /\ \E input \in Inputs \cup {RatioScenario} :
          /\ oldTokens = input[1] /\ newTokens = input[2]
          /\ region \in (IF input \in Scenarios \cup {RatioScenario}
                         THEN {WholeRegion(input[1], input[2])}
                         ELSE ValidRegions(input[1], input[2]))
          /\ pc \in (IF input = RatioScenario THEN {"_guidedCalculateDiff"}
                     ELSE ToolboxMethods)
    /\ options \in ToolboxOptions
    /\ callDebug = FALSE
    /\ script = <<>>
    /\ middleSnake = NoSnake
    /\ guidedIterations = 0
    /\ foundAnchors = <<>>
    /\ optimalChain = <<>>
    /\ uniqueMatches = <<>>
    /\ scanIndex = 0
    /\ usedNewPos = {}
    /\ guidedState = GuidedStart(NoRegion)

RecursiveDiff ==
    /\ pc = "_recursiveDiff"
    /\ \E result \in {_recursiveDiff(engines[self], CallRegion, options)} :
          /\ engines' = [engines EXCEPT ![self] = result.this]
          /\ IF result.script = Thrown
             THEN pc' = "_recursiveDiff threw" /\ script' = <<>>
             ELSE pc' = "_recursiveDiff returned" /\ script' = result.script
    /\ UNCHANGED <<strategyRegistry, isDefaultRegistered, self, oldTokens, newTokens, callDebug,
                   options, region, middleSnake, guidedIterations,
                   foundAnchors, optimalChain, uniqueMatches, scanIndex, usedNewPos, guidedState>>

GuidedCalculateDiff ==
    /\ pc = "_guidedCalculateDiff"
    /\ \E walk \in {GuidedWalk(CallRegion, options)} :
          script' = walk.ops /\ guidedIterations' = walk.iterations
    /\ pc' = "_guidedCalculateDiff returned"
    /\ UNCHANGED <<strategyRegistry, isDefaultRegistered, engines, self, oldTokens, newTokens,
                   callDebug, options, region, middleSnake,
                   foundAnchors, optimalChain, uniqueMatches, scanIndex, usedNewPos, guidedState>>

FindMiddleSnake ==
    /\ pc = "_findMiddleSnake"
    /\ \E result \in {_findMiddleSnake(engines[self], CallRegion)} :
          /\ engines' = [engines EXCEPT ![self] = result.this]
          /\ middleSnake' = result.snake
    /\ pc' = "_findMiddleSnake returned"
    /\ UNCHANGED <<strategyRegistry, isDefaultRegistered, self, oldTokens, newTokens, callDebug,
                   options, region, script, guidedIterations,
                   foundAnchors, optimalChain, uniqueMatches, scanIndex, usedNewPos, guidedState>>

ToolboxNext == RecursiveDiff \/ GuidedCalculateDiff \/ FindMiddleSnake

ToolboxSpec == ToolboxInit /\ [][ToolboxNext]_vars

----------------------------------------------------------------------------
\* The class and its instances: engines are constructed, strategies are
\* registered under any name, and diff is called on any engine, any number of
\* times.  The registry and isDefaultRegistered are static: one of each for
\* all the engines.

MaxEngines == 2

\* The function a caller registers, and the names it registers it under.
PluginFunctions == {"_strategyPatienceDiff"}

RegisteredNames == {"commonSES", "patienceDiff"}

\* The calls made on the engines: inputs of different sizes, under the
\* defaults, under options that send commonSES into the recursion, and with
\* the patienceDiff strategy.
EngineInputs ==
    {<<<<"a">>, <<"b">>>>,
     <<<<"a", "b", "x">>, <<"x", "a", "b">>>>,
     <<<<"a", "b", "c", "d", "e">>, <<"a", "X", "c", "d", "Y", "e">>>>}

EngineOptions ==
    {defaultOptions,
     [defaultOptions EXCEPT !.preservePositions = FALSE, !.quickDiffThreshold = 0,
                            !.useAnchors = FALSE],
     [defaultOptions EXCEPT !.diffStrategyName = "patienceDiff"]}

\* The class as it is loaded: an empty registry, no engine.
EngineInit ==
    /\ strategyRegistry = <<>>
    /\ isDefaultRegistered = FALSE
    /\ engines = <<>>
    /\ self = 0
    /\ oldTokens = <<>> /\ newTokens = <<>>
    /\ options = defaultOptions
    /\ callDebug = FALSE
    /\ region = NoRegion
    /\ pc = "loaded"
    /\ script = <<>>
    /\ middleSnake = NoSnake
    /\ guidedIterations = 0
    /\ foundAnchors = <<>>
    /\ optimalChain = <<>>
    /\ uniqueMatches = <<>>
    /\ scanIndex = 0
    /\ usedNewPos = {}
    /\ guidedState = GuidedStart(NoRegion)

\* new MyersCoreDiff()
Construct ==
    /\ Len(engines) < MaxEngines
    /\ engines' = Append(engines, NewInstance)
    /\ self' = Len(engines) + 1
    /\ strategyRegistry' =
           ensureDefaultStrategyRegistered(strategyRegistry, isDefaultRegistered,
                                           Len(engines) + 1)
    /\ isDefaultRegistered' = TRUE
    /\ pc' = "constructed"
    /\ UNCHANGED <<oldTokens, newTokens, callDebug, options, region, script, middleSnake,
                   guidedIterations,
                   foundAnchors, optimalChain, uniqueMatches, scanIndex, usedNewPos, guidedState>>

\* MyersCoreDiff.registerStrategy(name, strategyFn)
RegisterStrategy ==
    /\ \E name \in RegisteredNames, strategyFn \in PluginFunctions :
          strategyRegistry' = registerStrategy(strategyRegistry, name, Bound(strategyFn, 0))
    /\ pc' = "registered"
    /\ UNCHANGED <<isDefaultRegistered, engines, self, oldTokens, newTokens, callDebug,
                   options, region, script, middleSnake, guidedIterations,
                   foundAnchors, optimalChain, uniqueMatches, scanIndex, usedNewPos, guidedState>>

\* engine.diff(old, new, false, options) on one of the engines
DiffOnEngine ==
    \E engine \in 1..Len(engines), input \in EngineInputs, config \in EngineOptions :
       /\ self' = engine
       /\ oldTokens' = input[1] /\ newTokens' = input[2]
       /\ options' = config /\ callDebug' = FALSE
       /\ \E result \in {diff(engines, input[1], input[2], FALSE, config, strategyRegistry)} :
             /\ engines' = result.instances
             /\ IF result.script = Thrown
                THEN pc' = "threw" /\ script' = <<>>
                ELSE pc' = "returned" /\ script' = result.script
       /\ UNCHANGED <<strategyRegistry, isDefaultRegistered, region, middleSnake,
                      guidedIterations,
                   foundAnchors, optimalChain, uniqueMatches, scanIndex, usedNewPos, guidedState>>

EngineNext == Construct \/ RegisterStrategy \/ DiffOnEngine

EngineSpec == EngineInit /\ [][EngineNext]_vars

----------------------------------------------------------------------------
\* The other methods of the toolbox and of the patience plugin called
\* directly: calculateDiff on a region.  pc is the method about to be called.

\* A direct call about to be made on a fresh engine.
HelperCall(method, input, window, config, anchorsIn) ==
    /\ strategyRegistry = ensureDefaultStrategyRegistered(<<>>, FALSE, 1)
    /\ isDefaultRegistered = TRUE
    /\ engines = <<NewInstance>>
    /\ self = 1
    /\ oldTokens = input[1] /\ newTokens = input[2]
    /\ region = window
    /\ options = config
    /\ callDebug = FALSE
    /\ pc = method
    /\ script = <<>>
    /\ middleSnake = NoSnake
    /\ guidedIterations = 0
    /\ foundAnchors = anchorsIn
    /\ optimalChain = <<>>
    /\ uniqueMatches = <<>>
    /\ scanIndex = 0
    /\ usedNewPos = {}
    /\ guidedState = GuidedStart(NoRegion)

\* The windows a method is called on: every valid one of a short input, the
\* whole of a longer scenario.
Windows(input) ==
    IF input \in TokenArrays \X TokenArrays THEN ValidRegions(input[1], input[2])
    ELSE {WholeRegion(input[1], input[2])}

\* The anchor lists handed to _mergeAndFilterAnchors: up to MaxAnchors anchors
\* in any order, repeated or overlapping, each of at least one token (the
\* anchor search returns none shorter than minMatchLength >= huntChunkSize >= 1).
MaxAnchors == 3
MaxAnchorPos == 2
MaxAnchorLength == 2

Anchors ==
    [oldPos : 0..MaxAnchorPos, newPos : 0..MaxAnchorPos, length : 1..MaxAnchorLength]

AnchorLists == UNION {[1..k -> Anchors] : k \in 0..MaxAnchors}

NoInput == <<<<>>, <<>>>>

\* Two chunks of two tokens with the same hash: the tokens get the ids 0..31
\* in order of first occurrence, and 1 * 31 + 0 = 0 * 31 + 31, so the old chunk
\* "1", "0" at 31 collides with the new chunk "0", "31" at 0; "5".."8" is a
\* true common run.
CollisionScenario ==
    <<[i \in 1..31 |-> ToString(i - 1)] \o <<"1", "0">>, <<"0", "31", "5", "6", "7", "8">>>>

\* Search parameters small enough for the short inputs: chunks of one and of
\* two tokens, a hunt for a second chunk, a jump of two, a confidence floor,
\* positional anchors only; and the defaults, under which the window is too
\* small to be searched.
NoiseScenario ==
    <<<<"noise 1", "A", "noise 2", "noise 3", "B", "noise 4">>,
      <<"noise 5", "A", "noise 6", "B", "noise 7">>>>

AnchorOptions ==
    {defaultOptions,
     [defaultOptions EXCEPT !.quickDiffThreshold = 0, !.minMatchLength = 1,
                            !.huntChunkSize = 1, !.jumpStep = 1, !.minAnchorConfidence = 0],
     [defaultOptions EXCEPT !.quickDiffThreshold = 0, !.minMatchLength = 2,
                            !.huntChunkSize = 1, !.jumpStep = 1, !.minAnchorConfidence = 0],
     [defaultOptions EXCEPT !.quickDiffThreshold = 0, !.minMatchLength = 2,
                            !.huntChunkSize = 2, !.jumpStep = 1],
     [defaultOptions EXCEPT !.quickDiffThreshold = 0, !.minMatchLength = 2,
                            !.huntChunkSize = 2, !.jumpStep = 2, !.minAnchorConfidence = 0,
                            !.anchorSearchMode = "positional", !.positionalAnchorMaxDrift = 0]}

\* The configurations of the direct strategy calls: the defaults (a window
\* below quickDiffThreshold), position preservation off, the anchor search
\* switched off with and without position preservation, and an anchor search
\* that finds single common tokens.
StrategyOptions ==
    {defaultOptions,
     [defaultOptions EXCEPT !.preservePositions = FALSE],
     [defaultOptions EXCEPT !.quickDiffThreshold = 0, !.useAnchors = FALSE],
     [defaultOptions EXCEPT !.quickDiffThreshold = 0, !.useAnchors = FALSE,
                            !.preservePositions = FALSE],
     [defaultOptions EXCEPT !.quickDiffThreshold = 0, !.minMatchLength = 1,
                            !.huntChunkSize = 1, !.jumpStep = 1, !.minAnchorConfidence = 0,
                            !.preservePositions = FALSE]}

\* The windows that violate 0 <= start <= end <= length on a side: a start
\* below 0, a start above the end, an end beyond the array, by one position.
InvalidRegions(oldStrs, newStrs) ==
    [os : (0 - 1)..(Len(oldStrs) + 1), oe : (0 - 1)..(Len(oldStrs) + 1),
     ns : (0 - 1)..(Len(newStrs) + 1), ne : (0 - 1)..(Len(newStrs) + 1)]
        \ ValidRegions(oldStrs, newStrs)

RangeInputs ==
    {<<<<"a">>, <<"a">>>>,
     <<<<"a", "b">>, <<"b", "a">>>>,
     <<<<"a", "b", "c">>, <<"b", "a", "b">>>>}

RangeOptions == {defaultOptions, [defaultOptions EXCEPT !.quickDiffThreshold = 0]}

HelperInit ==
    \/ \E input \in Inputs : \E window \in Windows(input) :
          HelperCall("calculateDiff", input, window, defaultOptions, <<>>)
    \/ \E anchorsIn \in AnchorLists :
          HelperCall("_mergeAndFilterAnchors", NoInput, NoRegion, defaultOptions, anchorsIn)
    \/ \E input \in Inputs \cup {CollisionScenario} :
          \E window \in Windows(input), config \in AnchorOptions :
             HelperCall("_findAnchors", input, window, config, <<>>)
    \/ \E input \in Inputs \cup {NoiseScenario} : \E window \in Windows(input) :
          HelperCall("findUniqueMatches", input, window, defaultOptions, <<>>)
    \/ \E input \in Inputs : \E window \in Windows(input), config \in StrategyOptions :
          HelperCall("_strategycommonSES", input, window, config, <<>>)
    \/ \E input \in RangeInputs :
          \E window \in InvalidRegions(input[1], input[2]), config \in RangeOptions :
             HelperCall("_recursiveDiff", input, window, config, <<>>)

CalculateDiff ==
    /\ pc = "calculateDiff"
    /\ script' = calculateDiff(CallRegion)
    /\ pc' = "calculateDiff returned"
    /\ UNCHANGED <<strategyRegistry, isDefaultRegistered, engines, self, oldTokens, newTokens,
                   callDebug, options, region, middleSnake, guidedIterations,
                   foundAnchors, optimalChain, uniqueMatches, scanIndex, usedNewPos, guidedState>>

\* _mergeAndFilterAnchors(anchors, config, debug): the chain returned; the
\* caller's array is left sorted by anchors.sort, which sorts in place.
MergeAndFilterAnchors ==
    /\ pc = "_mergeAndFilterAnchors"
    /\ optimalChain' = _mergeAndFilterAnchors(foundAnchors)
    /\ foundAnchors' = SortByOldPos(foundAnchors, 1, <<>>)
    /\ pc' = "_mergeAndFilterAnchors returned"
    /\ UNCHANGED <<strategyRegistry, isDefaultRegistered, engines, self, oldTokens, newTokens,
                   callDebug, options, region, script, middleSnake, guidedIterations,
                   uniqueMatches, scanIndex, usedNewPos, guidedState>>

FindAnchors ==
    /\ pc = "_findAnchors"
    /\ foundAnchors' = _findAnchors(CallRegion, options)
    /\ pc' = "_findAnchors returned"
    /\ UNCHANGED <<strategyRegistry, isDefaultRegistered, engines, self, oldTokens, newTokens,
                   callDebug, options, region, script, middleSnake, guidedIterations,
                   optimalChain, uniqueMatches, scanIndex, usedNewPos, guidedState>>

FindUniqueMatches ==
    /\ pc = "findUniqueMatches"
    /\ uniqueMatches' = findUniqueMatches(CallRegion)
    /\ pc' = "findUniqueMatches returned"
    /\ UNCHANGED <<strategyRegistry, isDefaultRegistered, engines, self, oldTokens, newTokens,
                   callDebug, options, region, script, middleSnake, guidedIterations,
                   foundAnchors, optimalChain, scanIndex, usedNewPos, guidedState>>

\* The built-in strategy called as the dispatcher calls it, on a window.
StrategyCommonSES ==
    /\ pc = "_strategycommonSES"
    /\ \E result \in {_strategycommonSES(engines[self], CallRegion, options)} :
          /\ engines' = [engines EXCEPT ![self] = result.this]
          /\ IF result.script = Thrown
             THEN pc' = "_strategycommonSES threw" /\ script' = <<>>
             ELSE pc' = "_strategycommonSES returned" /\ script' = result.script
    /\ UNCHANGED <<strategyRegistry, isDefaultRegistered, self, oldTokens, newTokens, callDebug,
                   options, region, middleSnake, guidedIterations,
                   foundAnchors, optimalChain, uniqueMatches, scanIndex, usedNewPos, guidedState>>

HelperNext ==
    \/ CalculateDiff \/ MergeAndFilterAnchors \/ FindAnchors \/ FindUniqueMatches
    \/ StrategyCommonSES \/ RecursiveDiff

HelperSpec == HelperInit /\ [][HelperNext]_vars

----------------------------------------------------------------------------
\* _guidedCalculateDiff called directly with its main loop taken one iteration
\* at a time: the call enters (the size-ratio shortcut returns at once), the
\* loop runs while a token is left on either side and no iteration has
\* broken, and the call returns the operations buffer.

WalkInit ==
    \E input \in Inputs \cup {RatioScenario} :
        \E window \in Windows(input) :
            \E config \in ToolboxOptions :
                HelperCall("_guidedCalculateDiff", input, window, config, <<>>)

GuidedEnter ==
    /\ pc = "_guidedCalculateDiff"
    /\ IF AbsurdRatio(OldLen(CallRegion), NewLen(CallRegion))
       THEN /\ script' = CreateDeletions(CallRegion, region.os, region.oe)
                            \o CreateAdditions(CallRegion, region.ns, region.ne)
            /\ pc' = "_guidedCalculateDiff returned"
            /\ UNCHANGED guidedState
       ELSE /\ guidedState' = GuidedStart(CallRegion)
            /\ pc' = "_guidedCalculateDiff loop"
            /\ UNCHANGED script
    /\ UNCHANGED <<strategyRegistry, isDefaultRegistered, engines, self, oldTokens, newTokens,
                   callDebug, options, region, middleSnake, guidedIterations,
                   foundAnchors, optimalChain, uniqueMatches, scanIndex, usedNewPos>>

\* while (oldPos < oldEnd || newPos < newEnd), and no break taken.
GuidedCondition ==
    /\ ~guidedState.broke
    /\ guidedState.oldPos < region.oe \/ guidedState.newPos < region.ne

GuidedIteration ==
    /\ pc = "_guidedCalculateDiff loop"
    /\ GuidedCondition
    /\ guidedState' = GuidedStep(CallRegion, options, guidedState)
    /\ guidedIterations' = guidedState'.iterations
    /\ UNCHANGED <<strategyRegistry, isDefaultRegistered, engines, self, oldTokens, newTokens,
                   callDebug, options, region, pc, script, middleSnake,
                   foundAnchors, optimalChain, uniqueMatches, scanIndex, usedNewPos>>

GuidedReturn ==
    /\ pc = "_guidedCalculateDiff loop"
    /\ ~GuidedCondition
    /\ script' = GuidedResult(guidedState.ops, OldLen(CallRegion) + NewLen(CallRegion))
    /\ pc' = "_guidedCalculateDiff returned"
    /\ UNCHANGED <<strategyRegistry, isDefaultRegistered, engines, self, oldTokens, newTokens,
                   callDebug, options, region, middleSnake, guidedIterations,
                   foundAnchors, optimalChain, uniqueMatches, scanIndex, usedNewPos,
                   guidedState>>

WalkNext == GuidedEnter \/ GuidedIteration \/ GuidedReturn

WalkSpec == WalkInit /\ [][WalkNext]_vars

----------------------------------------------------------------------------
\* diff with the scan loop of _findAnchors taken one step at a time: the call
\* enters diff, the strategy's anchor search runs its for loop over the old
\* positions (condition, body, increment), and the call returns once the loop
\* condition fails.  Everything else diff runs is a loop over a bounded range.

\* The window diff hands to the strategy: the tokenized inputs, trimmed of
\* their common prefix and suffix unless skipTrimming is set.
StrategyWindow(oldStrs, newStrs, debug, config) ==
    LET Trim(whole, trimmed) ==
            IF config.skipTrimming THEN whole
            ELSE Region(whole, trimmed.newOldStart, trimmed.newOldEnd,
                               trimmed.newNewStart, trimmed.newNewEnd)
        Whole(whole) == Trim(whole, TrimCommonPrefixSuffix(whole))
        Tokens(t) == Whole([o |-> t.hashedOld, n |-> t.hashedNew, ids |-> t.idToString,
                            os |-> 0, oe |-> Len(t.hashedOld),
                            ns |-> 0, ne |-> Len(t.hashedNew), debug |-> debug])
    IN Tokens(Tokenize(oldStrs, newStrs))

\* _strategycommonSES searches anchors on the window.
StrategySearches(c, cfg) == cfg.useAnchors /\ OldLen(c) + NewLen(c) > cfg.quickDiffThreshold

\* The two early returns of _findAnchors and the guard around its scan loop:
\* the call gets to the for loop over the old positions.
ReachesScan(c, cfg) ==
    /\ ~(OldLen(c) + NewLen(c) < cfg.quickDiffThreshold)
    /\ ~(cfg.huntChunkSize <= 0 \/ cfg.minMatchLength < cfg.huntChunkSize)
    /\ NewLen(c) >= cfg.huntChunkSize

\* The option records of the stepped calls: the defaults; anchor searches over
\* single tokens with jumpStep 2, 1 and 0, trimmed and untrimmed; and the
\* search parameters _findAnchors rejects (huntChunkSize zero or negative,
\* minMatchLength below huntChunkSize), with jumpStep zero and negative.
ScanOptions ==
    {defaultOptions,
     [defaultOptions EXCEPT !.quickDiffThreshold = 0, !.minMatchLength = 1,
                            !.huntChunkSize = 1, !.jumpStep = 2, !.minAnchorConfidence = 0],
     [defaultOptions EXCEPT !.quickDiffThreshold = 0, !.minMatchLength = 1,
                            !.huntChunkSize = 1, !.jumpStep = 1, !.minAnchorConfidence = 0],
     [defaultOptions EXCEPT !.quickDiffThreshold = 0, !.minMatchLength = 1,
                            !.huntChunkSize = 1, !.jumpStep = 0, !.minAnchorConfidence = 0],
     [defaultOptions EXCEPT !.quickDiffThreshold = 0, !.minMatchLength = 1,
                            !.huntChunkSize = 1, !.jumpStep = 0, !.minAnchorConfidence = 0,
                            !.skipTrimming = TRUE],
     [defaultOptions EXCEPT !.quickDiffThreshold = 0, !.minMatchLength = 1,
                            !.huntChunkSize = 0, !.jumpStep = 0],
     [defaultOptions EXCEPT !.quickDiffThreshold = 0, !.minMatchLength = 0,
                            !.huntChunkSize = 1, !.jumpStep = 0 - 1],
     [defaultOptions EXCEPT !.quickDiffThreshold = 0, !.minMatchLength = 0 - 1,
                            !.huntChunkSize = 0 - 1, !.jumpStep = 0 - 1]}

ScanInit ==
    /\ strategyRegistry = ensureDefaultStrategyRegistered(<<>>, FALSE, 1)
    /\ isDefaultRegistered = TRUE
    /\ engines = <<NewInstance>>
    /\ self = 1
    /\ \E input \in TokenArrays \X TokenArrays :
          oldTokens = input[1] /\ newTokens = input[2]
    /\ options \in ScanOptions
    /\ callDebug = FALSE
    /\ region = NoRegion
    /\ pc = "diff"
    /\ script = <<>>
    /\ middleSnake = NoSnake
    /\ guidedIterations = 0
    /\ foundAnchors = <<>>
    /\ optimalChain = <<>>
    /\ uniqueMatches = <<>>
    /\ scanIndex = 0
    /\ usedNewPos = {}
    /\ guidedState = GuidedStart(NoRegion)

ScanWindow == StrategyWindow(oldTokens, newTokens, callDebug, options)

\* diff up to the scan loop: tokenizing, trimming, the strategy's decision to
\* search anchors and the parameter checks of _findAnchors.  A call that does
\* not get to the loop has no anchors (no search, or return [] from the
\* checks, or the loop skipped and the filters run on an empty list).
DiffEnter ==
    /\ pc = "diff"
    /\ IF StrategySearches(ScanWindow, options) /\ ReachesScan(ScanWindow, options)
       THEN pc' = "_findAnchors scan body"
       ELSE pc' = "_findAnchors scan skipped"
    /\ scanIndex' = 0
    /\ usedNewPos' = {}
    /\ foundAnchors' = <<>>
    /\ UNCHANGED <<strategyRegistry, isDefaultRegistered, engines, self, oldTokens, newTokens,
                   callDebug, options, region, script, middleSnake, guidedIterations,
                   optimalChain, uniqueMatches, guidedState>>

\* The loop condition of for (let i = 0; i <= lakeOldLen - huntChunkSize; i += jumpStep).
ScanCondition == scanIndex <= OldLen(ScanWindow) - options.huntChunkSize

\* The body of one iteration: the chunk at old position i is looked up and its
\* candidates are tried; an anchor found is pushed, its new positions are
\* marked and i is set to the anchor's end less jumpStep.
ScanBody ==
    /\ pc = "_findAnchors scan body"
    /\ ScanCondition
    /\ LET c == ScanWindow
           oldPos == c.os + scanIndex
           tried == TryStarts(c, options, oldPos,
                              PotentialStarts(c, options,
                                              ChunkHash(c.o, oldPos, options.huntChunkSize)),
                              1, usedNewPos)
       IN IF tried.found
          THEN /\ foundAnchors' = Append(foundAnchors, tried.anchor)
               /\ usedNewPos' = usedNewPos \cup {tried.anchor.newPos + k :
                                                   k \in 0..(tried.anchor.length - 1)}
               /\ scanIndex' = (tried.anchor.oldPos - c.os) + tried.anchor.length
                                - options.jumpStep
          ELSE UNCHANGED <<foundAnchors, usedNewPos, scanIndex>>
    /\ pc' = "_findAnchors scan increment"
    /\ UNCHANGED <<strategyRegistry, isDefaultRegistered, engines, self, oldTokens, newTokens,
                   callDebug, options, region, script, middleSnake, guidedIterations,
                   optimalChain, uniqueMatches, guidedState>>

\* The increment of the for loop: i += jumpStep.
ScanIncrement ==
    /\ pc = "_findAnchors scan increment"
    /\ scanIndex' = scanIndex + options.jumpStep
    /\ pc' = "_findAnchors scan body"
    /\ UNCHANGED <<strategyRegistry, isDefaultRegistered, engines, self, oldTokens, newTokens,
                   callDebug, options, region, script, middleSnake, guidedIterations,
                   foundAnchors, optimalChain, uniqueMatches, usedNewPos, guidedState>>

\* The scan is over (the loop condition fails) or was skipped: the anchors
\* are filtered and chained, the gaps are diffed and diff returns.
DiffReturn ==
    /\ \/ pc = "_findAnchors scan skipped"
       \/ pc = "_findAnchors scan body" /\ ~ScanCondition
    /\ \E result \in {diff(engines, oldTokens, newTokens, callDebug, options, strategyRegistry)} :
          /\ engines' = result.instances
          /\ IF result.script = Thrown
             THEN pc' = "threw" /\ script' = <<>>
             ELSE pc' = "returned" /\ script' = result.script
    /\ UNCHANGED <<strategyRegistry, isDefaultRegistered, self, oldTokens, newTokens, callDebug,
                   options, region, middleSnake, guidedIterations, foundAnchors, optimalChain,
                   uniqueMatches, scanIndex, usedNewPos, guidedState>>

ScanNext == DiffEnter \/ ScanBody \/ ScanIncrement \/ DiffReturn

\* DiffEnter, ScanBody and DiffReturn are defined on every state their guard
\* admits and each ends its own guard (it changes pc), so these predicates are
\* ENABLED <<DiffEnter>>_vars, ENABLED <<ScanBody>>_vars and
\* ENABLED <<DiffReturn>>_vars, and weak fairness of each of the three steps is
\* that its predicate is false infinitely often.
DiffEnterEnabled == pc = "diff"
ScanBodyEnabled == pc = "_findAnchors scan body" /\ ScanCondition
DiffReturnEnabled ==
    \/ pc = "_findAnchors scan skipped"
    \/ pc = "_findAnchors scan body" /\ ~ScanCondition

\* The engine is single-threaded and synchronous: a call in progress always
\* takes its next step.  Weak fairness of each of the four steps, that of
\* DiffEnter, ScanBody and DiffReturn written over their enabling predicates.
ScanSpec ==
    /\ ScanInit /\ [][ScanNext]_vars
    /\ WF_vars(ScanIncrement)
    /\ []<>~DiffEnterEnabled
    /\ []<>~ScanBodyEnabled
    /\ []<>~DiffReturnEnabled

----------------------------------------------------------------------------
\* Applying a script to old (the applyPatch helper of the tests).

StrAt(strs, i) == IF i >= 0 /\ i < Len(strs) THEN strs[i + 1] ELSE UndefStr

\* What applyPatch gives when it throws: no array of tokens.
PatchError == <<<<"Patch consistency error">>>>

\* applyPatch.  oldTokensIndex, when the n-th operation is read, is the number
\* of EQUAL and REMOVE operations before it; the call throws when an EQUAL or
\* a REMOVE does not carry the old token at that index, and otherwise returns
\* the values pushed by the EQUAL and ADD operations, in order.
ApplyPatch(oldStrs, patch) ==
    LET IndexAt(n) == Cardinality({i \in 1..(n - 1) : patch[i][1] # ADD})
        Consistent(n) ==
            patch[n][1] = ADD \/ StrAt(oldStrs, IndexAt(n)) = patch[n][2]
        Pushes(operation) == operation[1] # REMOVE
        Values(pushed) == SubSeq([i \in 1..Len(pushed) |-> pushed[i][2]], 1, Len(pushed))
    IN IF \A n \in 1..Len(patch) : Consistent(n)
       THEN Values(SelectSeq(patch, Pushes))
       ELSE PatchError

Returned == pc = "returned"

Registered(name) == name \in DOMAIN strategyRegistry

Count(patch, op) == Cardinality({i \in 1..Len(patch) : patch[i][1] = op})

AllOf(op, strs) == [i \in 1..Len(strs) |-> <<op, strs[i]>>]

\* Reading the script left to right, the position reached in old and in new
\* after the first n operations.
OldUsed(patch, n) == Cardinality({i \in 1..n : patch[i][1] # ADD})
NewUsed(patch, n) == Cardinality({i \in 1..n : patch[i][1] # REMOVE})

WellFormed(oldStrs, newStrs, patch) ==
    \A i \in 1..Len(patch) :
        IF patch[i][1] = ADD
        THEN patch[i][2] = StrAt(newStrs, NewUsed(patch, i - 1))
        ELSE patch[i][2] = StrAt(oldStrs, OldUsed(patch, i - 1))

\* The length of a longest common subsequence, one row of the table at a
\* time: after the rows of a[1..i], row[j] is the length for a[1..i], b[1..j].
SetMax(S) == CHOOSE m \in S : \A k \in S : k <= m

LCSRow(x, b, prev) ==
    SubSeq([j \in 1..Len(b) |->
               SetMax({prev[j]} \cup {(IF k = 1 THEN 0 ELSE prev[k - 1]) + 1 :
                                        k \in {h \in 1..j : b[h] = x}})],
           1, Len(b))

RECURSIVE LCSRows(_, _, _, _)
LCSRows(a, b, i, prev) ==
    IF Len(prev) = 0 THEN 0
    ELSE IF i > Len(a) THEN prev[Len(prev)]
    ELSE LCSRows(a, b, i + 1, LCSRow(a[i], b, prev))

LCS(a, b) == LCSRows(a, b, 1, [j \in 1..Len(b) |-> 0])

CommonPrefix(a, b) ==
    Cardinality({k \in 1..Min(Len(a), Len(b)) : \A i \in 1..k : a[i] = b[i]})

CommonSuffix(a, b, limit) ==
    Cardinality({k \in 1..limit : \A i \in 1..k : a[Len(a) - i + 1] = b[Len(b) - i + 1]})

\* new is old with one contiguous, non-empty block inserted.
IsInsertion(oldStrs, newStrs) ==
    /\ Len(newStrs) > Len(oldStrs)
    /\ \E i \in 0..Len(oldStrs) :
          /\ SubSeq(newStrs, 1, i) = SubSeq(oldStrs, 1, i)
          /\ SubSeq(newStrs, Len(newStrs) - (Len(oldStrs) - i) + 1, Len(newStrs))
                = SubSeq(oldStrs, i + 1, Len(oldStrs))

----------------------------------------------------------------------------
\* The properties.

\* C1: for every pair of inputs and every option record, the script returned
\* by diff with the default commonSES strategy, applied in order to old,
\* yields exactly new.
C1_RoundTripCommonSES ==
    (Returned /\ options.diffStrategyName = "commonSES")
        => ApplyPatch(oldTokens, script) = newTokens

\* C2: once registerPatienceDiffStrategy has been called, the script returned
\* by diff with the strategy 'patienceDiff', applied to old, yields new.
C2_RoundTripPatience ==
    (Returned /\ options.diffStrategyName = "patienceDiff")
        => ApplyPatch(oldTokens, script) = newTokens

\* C3: once registerPreserveStructureStrategy has been called, the script
\* returned by diff with the strategy 'preserveStructure', applied to old,
\* yields new.
C3_RoundTripPreserve ==
    (Returned /\ options.diffStrategyName = "preserveStructure")
        => ApplyPatch(oldTokens, script) = newTokens

\* C4: in every returned script, read left to right, each EQUAL and each
\* REMOVE carries the string at the next unconsumed position of old and each
\* ADD the string at the next unconsumed position of new.
C4_WellFormedScript == Returned => WellFormed(oldTokens, newTokens, script)

\* C5: diff(old, old) returns exactly |old| operations, all EQUAL, carrying
\* the tokens of old in order, for every strategy and option record.
C5_IdenticalInputs ==
    (pc # "ready" /\ Registered(options.diffStrategyName) /\ oldTokens = newTokens)
        => (Returned /\ script = AllOf(EQUAL, oldTokens))

\* C6: diff([], new) returns exactly the ADDs of new in order, and
\* diff(old, []) exactly the REMOVEs of old in order.
C6_EmptySide ==
    (pc # "ready" /\ Registered(options.diffStrategyName))
        => /\ oldTokens = <<>> => (Returned /\ script = AllOf(ADD, newTokens))
           /\ newTokens = <<>> => (Returned /\ script = AllOf(REMOVE, oldTokens))

\* C7: a diff call naming a strategy that is not in the registry fails with
\* an error and returns no script at all, not even the trimmed prefix.
C7_UnknownStrategyThrows ==
    (pc # "ready" /\ ~Registered(options.diffStrategyName))
        => (pc = "threw" /\ script = <<>>)

\* C8: with trimming enabled, if new is old with one contiguous block
\* inserted, the script has exactly |new| - |old| ADDs, |old| EQUALs and no
\* REMOVE; symmetrically for one contiguous block removed.
C8_SingleBlockEdit ==
    (pc # "ready" /\ Registered(options.diffStrategyName) /\ ~options.skipTrimming)
        => /\ IsInsertion(oldTokens, newTokens)
                => /\ Returned
                   /\ Count(script, ADD) = Len(newTokens) - Len(oldTokens)
                   /\ Count(script, EQUAL) = Len(oldTokens)
                   /\ Count(script, REMOVE) = 0
           /\ IsInsertion(newTokens, oldTokens)
                => /\ Returned
                   /\ Count(script, REMOVE) = Len(oldTokens) - Len(newTokens)
                   /\ Count(script, EQUAL) = Len(newTokens)
                   /\ Count(script, ADD) = 0

\* C9: with skipTrimming = false, p the length of the longest common prefix
\* and s the length of the longest common suffix limited to
\* min(|old|, |new|) - p: the first p and the last s operations of the
\* returned script are EQUAL carrying those tokens, so that ADD and REMOVE
\* occur only in the part of the script produced for the interior window.
C9_TrimmedEndsAreEqual ==
    (Returned /\ ~options.skipTrimming)
        => LET p == CommonPrefix(oldTokens, newTokens)
               s == CommonSuffix(oldTokens, newTokens,
                                 Min(Len(oldTokens), Len(newTokens)) - p)
           IN /\ Len(script) >= p + s
              /\ SubSeq(script, 1, p) = AllOf(EQUAL, SubSeq(oldTokens, 1, p))
              /\ SubSeq(script, Len(script) - s + 1, Len(script))
                    = AllOf(EQUAL, SubSeq(oldTokens, Len(oldTokens) - s + 1, Len(oldTokens)))
              /\ \A i \in 1..Len(script) :
                    script[i][1] # EQUAL => (i > p /\ i <= Len(script) - s)

\* C10: with the default strategy and the default options diff returns a
\* shortest edit script: #ADD + #REMOVE = |old| + |new| - 2 * LCS(old, new).
C10_ShortestEditScript ==
    (Returned /\ options = defaultOptions)
        => Count(script, ADD) + Count(script, REMOVE)
              = Len(oldTokens) + Len(newTokens) - 2 * LCS(oldTokens, newTokens)

----------------------------------------------------------------------------
\* States in which the cases of the properties occur.

\* A block swap diffed by the patience strategy without trimming: the script
\* has operations of all three kinds and gives back new.
C2_Witness ==
    /\ Returned /\ options.diffStrategyName = "patienceDiff" /\ options.skipTrimming
    /\ oldTokens = <<"A", "B", "C", "D">> /\ newTokens = <<"A", "C", "D", "B">>
    /\ Count(script, ADD) > 0 /\ Count(script, REMOVE) > 0 /\ Count(script, EQUAL) > 0
    /\ ApplyPatch(oldTokens, script) = newTokens

\* A long shifted run diffed by preserveStructure: the run is kept as EQUAL
\* and the tokens around it are added and removed.
C3_Witness ==
    /\ Returned /\ options.diffStrategyName = "preserveStructure"
    /\ Len(oldTokens) > Len(LongRun)
    /\ Count(script, EQUAL) >= Len(LongRun)
    /\ Count(script, ADD) > 0 /\ Count(script, REMOVE) > 0
    /\ ApplyPatch(oldTokens, script) = newTokens

\* Identical inputs that reach the strategy untrimmed.
C5_Witness ==
    /\ Returned /\ options.skipTrimming
    /\ oldTokens = newTokens /\ Len(oldTokens) >= 2
    /\ script = AllOf(EQUAL, oldTokens)

\* An empty old with at least two tokens to add.
C6_Witness ==
    /\ Returned /\ oldTokens = <<>> /\ Len(newTokens) >= 2
    /\ script = AllOf(ADD, newTokens)

\* A call naming an unregistered strategy on inputs with a common prefix
\* that trimming would have emitted.
C7_Witness ==
    /\ pc = "threw" /\ ~Registered(options.diffStrategyName)
    /\ ~options.skipTrimming
    /\ CommonPrefix(oldTokens, newTokens) >= 1

\* A block inserted between a non-empty prefix and a non-empty suffix.
C8_Witness ==
    /\ Returned /\ ~options.skipTrimming
    /\ Len(oldTokens) >= 2 /\ IsInsertion(oldTokens, newTokens)
    /\ oldTokens[1] = newTokens[1]
    /\ oldTokens[Len(oldTokens)] = newTokens[Len(newTokens)]
    /\ Count(script, ADD) = Len(newTokens) - Len(oldTokens)
    /\ Count(script, EQUAL) = Len(oldTokens)

\* A trimmed prefix and a trimmed suffix around a window that is both added
\* to and removed from.
C9_Witness ==
    /\ Returned /\ ~options.skipTrimming
    /\ CommonPrefix(oldTokens, newTokens) >= 1
    /\ oldTokens[Len(oldTokens)] = newTokens[Len(newTokens)]
    /\ Count(script, ADD) > 0 /\ Count(script, REMOVE) > 0
    /\ script[1][1] = EQUAL /\ script[Len(script)][1] = EQUAL

----------------------------------------------------------------------------
\* The old and the new tokens of the region of a direct toolbox call.

RegionOld == SubSeq(oldTokens, region.os + 1, region.oe)
RegionNew == SubSeq(newTokens, region.ns + 1, region.ne)

\* C11: for every valid region and every configuration, _recursiveDiff returns
\* a script (it does not throw) which, applied in order to
\* old[oldStart..oldEnd), yields exactly new[newStart..newEnd).
C11_RecursiveDiffRoundTrip ==
    /\ pc # "_recursiveDiff threw"
    /\ pc = "_recursiveDiff returned" => ApplyPatch(RegionOld, script) = RegionNew

\* C12: for every valid region, _recursiveDiff returns a shortest edit script:
\* its #ADD + #REMOVE is the minimum over all scripts that turn the old range
\* into the new range, |old range| + |new range| - 2 * LCS of the two ranges.
C12_RecursiveDiffShortest ==
    /\ pc # "_recursiveDiff threw"
    /\ pc = "_recursiveDiff returned"
          => Count(script, ADD) + Count(script, REMOVE)
                = Len(RegionOld) + Len(RegionNew) - 2 * LCS(RegionOld, RegionNew)

C14_GuidedIterationsBounded ==
    pc = "_guidedCalculateDiff returned"
        => guidedIterations <= Len(RegionOld) + Len(RegionNew) + 100

\* The corridor heuristic has returned from a walk that took one main-loop
\* iteration for every token of a region with tokens on both sides.
C14_Witness ==
    /\ pc = "_guidedCalculateDiff returned"
    /\ Len(RegionOld) > 0 /\ Len(RegionNew) > 0
    /\ guidedIterations = Len(RegionOld) + Len(RegionNew)

----------------------------------------------------------------------------
\* C15: right after any engine construction, whatever constructions and
\* registerStrategy calls came before it, the name 'commonSES' is bound in the
\* registry to the built-in commonSES strategy.
C15_ConstructionRegistersBuiltIn ==
    pc = "constructed"
        => /\ "commonSES" \in DOMAIN strategyRegistry
           /\ strategyRegistry["commonSES"].fn = "_strategycommonSES"

\* C16: a call made on one engine leaves the buffers of every other engine as
\* they were: it neither grows nor refills them.
C16_EnginesIsolated ==
    [][\A engine \in 1..Len(engines) : engine # self' => engines'[engine] = engines[engine]]_vars

\* The last call as made on engines that have never run a diff, with the
\* registry as it is.
FreshEngines == [engine \in 1..Len(engines) |-> NewInstance]

FreshCall == diff(FreshEngines, oldTokens, newTokens, callDebug, options, strategyRegistry)

\* C17: what diff returns depends on the two inputs, the options and the
\* registered strategy only: a call on engines whose buffers earlier calls have
\* grown and written returns what the same call returns on fresh engines, and
\* throws exactly when that one throws.
C17_DiffIsFunctionOfInputs ==
    /\ pc = "returned" => script = FreshCall.script
    /\ pc = "threw" => FreshCall.script = Thrown

\* A returned commonSES call that searched for middle snakes in buffers an
\* earlier, larger call had left grown and written.
C17_Witness ==
    /\ pc = "returned"
    /\ options.diffStrategyName = "commonSES"
    /\ "commonSES" \in DOMAIN strategyRegistry
    /\ strategyRegistry["commonSES"].fn = "_strategycommonSES"
    /\ \E op \in 1..Len(script) : script[op][1] # EQUAL
    /\ LET Dirty(used, fresh) ==
               /\ Len(fresh.forwardBuffer) > 0
               /\ Len(used.forwardBuffer) > Len(fresh.forwardBuffer)
               /\ \E cell \in 1..Len(fresh.forwardBuffer) :
                     used.forwardBuffer[cell] # fresh.forwardBuffer[cell]
       IN Dirty(engines[strategyRegistry["commonSES"].this],
                FreshCall.instances[strategyRegistry["commonSES"].this])

\* The call of the specification Spec made again on a fresh engine with the
\* opposite debug flag.
ToggledCall ==
    diff(<<NewInstance>>, oldTokens, newTokens, ~callDebug, options, strategyRegistry)

\* C18: a diff call with debug = true returns the script the same call returns
\* with debug = false, and throws exactly when that one throws.
C18_DebugKeepsScript ==
    /\ pc = "returned" => script = ToggledCall.script
    /\ pc = "threw" => ToggledCall.script = Thrown

\* A call with debug = true has returned a script with changes in it, under
\* options that trim the common prefix and suffix.
C18_Witness ==
    /\ pc = "returned"
    /\ callDebug
    /\ ~options.skipTrimming
    /\ \E op \in 1..Len(script) : script[op][1] = EQUAL
    /\ \E op \in 1..Len(script) : script[op][1] # EQUAL

\* C19: every snake (x, y, u, v) returned by _findMiddleSnake for a region
\* satisfies u - x = v - y > 0, and the old tokens of the region from x are the
\* new tokens of the region from y over the whole length u - x.
C19_SnakeIsCommonRun ==
    (pc = "_findMiddleSnake returned" /\ middleSnake.found)
        => /\ middleSnake.u - middleSnake.x = middleSnake.v - middleSnake.y
           /\ middleSnake.u - middleSnake.x > 0
           /\ \A i \in 0..(middleSnake.u - middleSnake.x - 1) :
                 /\ middleSnake.x + i + 1 \in DOMAIN RegionOld
                 /\ middleSnake.y + i + 1 \in DOMAIN RegionNew
                 /\ RegionOld[middleSnake.x + i + 1] = RegionNew[middleSnake.y + i + 1]

\* C20: for every valid pair of non-empty ranges, _findMiddleSnake returns a
\* snake, not undefined.
C20_SnakeFound ==
    (pc = "_findMiddleSnake returned" /\ region.os < region.oe /\ region.ns < region.ne)
        => middleSnake.found

----------------------------------------------------------------------------
\* C21: for every valid region, calculateDiff returns a shortest edit script:
\* applied to the old range it yields the new range, and its ADD and REMOVE
\* operations number N + M - 2 * LCS of the two ranges.
C21_CalculateDiffShortest ==
    pc = "calculateDiff returned"
        => /\ ApplyPatch(RegionOld, script) = RegionNew
           /\ Count(script, ADD) + Count(script, REMOVE)
                  = Len(RegionOld) + Len(RegionNew) - 2 * LCS(RegionOld, RegionNew)

\* calculateDiff has returned a script that keeps a common token and changes
\* tokens on both sides of a region with old and new tokens.
C21_Witness ==
    /\ pc = "calculateDiff returned"
    /\ Count(script, EQUAL) > 0
    /\ Count(script, ADD) > 0
    /\ Count(script, REMOVE) > 0

----------------------------------------------------------------------------
\* p ends, in both coordinates, where q begins or before it.
Precedes(p, q) ==
    /\ q.oldPos >= p.oldPos + p.length
    /\ q.newPos >= p.newPos + p.length

RECURSIVE TotalLength(_)
TotalLength(anchorSeq) ==
    IF anchorSeq = <<>> THEN 0 ELSE anchorSeq[1].length + TotalLength(Tail(anchorSeq))

\* The sets of indices of an anchor list whose anchors form a chain: of any
\* two of them one precedes the other.
Chains(anchorSeq) ==
    {S \in SUBSET (1..Len(anchorSeq)) :
        \A i \in S, j \in S :
            i # j => Precedes(anchorSeq[i], anchorSeq[j]) \/ Precedes(anchorSeq[j], anchorSeq[i])}

RECURSIVE ChainWeight(_, _)
ChainWeight(anchorSeq, S) ==
    IF S = {} THEN 0
    ELSE LET i == CHOOSE i \in S : TRUE
         IN anchorSeq[i].length + ChainWeight(anchorSeq, S \ {i})

\* The greatest total length of a chain that can be formed from the anchors.
HeaviestChain(anchorSeq) == SetMax({ChainWeight(anchorSeq, S) : S \in Chains(anchorSeq)})

\* C22: in the chain returned by _mergeAndFilterAnchors each anchor begins, in
\* both coordinates, at or after the end of the one before it.
C22_ChainMonotone ==
    pc = "_mergeAndFilterAnchors returned"
        => \A i \in 1..(Len(optimalChain) - 1) : Precedes(optimalChain[i], optimalChain[i + 1])

\* A chain of at least two anchors, returned for a list in which anchors overlap.
C22_Witness ==
    /\ pc = "_mergeAndFilterAnchors returned"
    /\ Len(optimalChain) >= 2
    /\ \E i \in 1..Len(foundAnchors), j \in 1..Len(foundAnchors) :
          /\ i # j
          /\ ~Precedes(foundAnchors[i], foundAnchors[j])
          /\ ~Precedes(foundAnchors[j], foundAnchors[i])

\* C23: the chain returned by _mergeAndFilterAnchors is made of input anchors,
\* its total length is the greatest any chain of input anchors has, and it is
\* not empty when the input is not.
C23_ChainHeaviest ==
    pc = "_mergeAndFilterAnchors returned"
        => /\ \A i \in 1..Len(optimalChain) :
                 \E j \in 1..Len(foundAnchors) : optimalChain[i] = foundAnchors[j]
           /\ TotalLength(optimalChain) = HeaviestChain(foundAnchors)
           /\ (Len(foundAnchors) > 0 => Len(optimalChain) > 0)

\* The chain returned for a full list is its first anchor alone, a long one,
\* and not a chain ending in the last anchor of the list, a shorter one.
C23_Witness ==
    /\ pc = "_mergeAndFilterAnchors returned"
    /\ Len(foundAnchors) = MaxAnchors
    /\ Len(optimalChain) = 1
    /\ optimalChain[1] = foundAnchors[1]
    /\ optimalChain[1].length = MaxAnchorLength
    /\ foundAnchors[Len(foundAnchors)].length < MaxAnchorLength

----------------------------------------------------------------------------
\* C24: every anchor returned by _findAnchors lies inside the searched window,
\* is at least minMatchLength long, and covers the same tokens in old and in
\* new, symbol by symbol, whatever the hashes of the chunks.
C24_AnchorsVerified ==
    pc = "_findAnchors returned"
        => \A a \in 1..Len(foundAnchors) :
              LET anchor == foundAnchors[a]
              IN /\ anchor.length >= options.minMatchLength
                 /\ region.os <= anchor.oldPos /\ anchor.oldPos + anchor.length <= region.oe
                 /\ region.ns <= anchor.newPos /\ anchor.newPos + anchor.length <= region.ne
                 /\ \A i \in 1..anchor.length :
                       oldTokens[anchor.oldPos + i] = newTokens[anchor.newPos + i]

\* Two chunks of different tokens with the same hash, one in each window.
CollidingChunks ==
    \E p \in region.os..(region.oe - options.huntChunkSize),
       q \in region.ns..(region.ne - options.huntChunkSize) :
        /\ ChunkHash(CallRegion.o, p, options.huntChunkSize)
               = ChunkHash(CallRegion.n, q, options.huntChunkSize)
        /\ SubSeq(oldTokens, p + 1, p + options.huntChunkSize)
               # SubSeq(newTokens, q + 1, q + options.huntChunkSize)

\* The search has returned an anchor from windows that hold two colliding chunks.
C24_Witness ==
    /\ pc = "_findAnchors returned"
    /\ Len(foundAnchors) > 0
    /\ options.huntChunkSize > 0
    /\ CollidingChunks

----------------------------------------------------------------------------
\* The positions (0-based) of the symbols that occur exactly once in the old
\* window and exactly once in the new window.
Occurrences(strs, start, end, symbol) == {i \in start..(end - 1) : strs[i + 1] = symbol}

UniquePairs ==
    {<<p, q>> \in (region.os..(region.oe - 1)) \X (region.ns..(region.ne - 1)) :
        /\ oldTokens[p + 1] = newTokens[q + 1]
        /\ Occurrences(oldTokens, region.os, region.oe, oldTokens[p + 1]) = {p}
        /\ Occurrences(newTokens, region.ns, region.ne, oldTokens[p + 1]) = {q}}

\* C25: findUniqueMatches returns one pair for each symbol that occurs exactly
\* once in the old region and exactly once in the new region, with its two
\* positions, and no other pair.
C25_UniqueMatchesExact ==
    pc = "findUniqueMatches returned"
        => /\ {<<uniqueMatches[m].oldIndex, uniqueMatches[m].newIndex>> :
                  m \in 1..Len(uniqueMatches)} = UniquePairs
           /\ Len(uniqueMatches) = Cardinality(UniquePairs)

----------------------------------------------------------------------------
\* The strategy skips the anchor search (useAnchors off, or a window not above
\* quickDiffThreshold), or the chain selected from the anchors found is empty.
SearchesAnchors ==
    options.useAnchors /\ Len(RegionOld) + Len(RegionNew) > options.quickDiffThreshold

NoAnchors ==
    SearchesAnchors => _mergeAndFilterAnchors(_findAnchors(CallRegion, options)) = <<>>

\* _recursiveDiff run over the entire window on a fresh engine.
RecursiveOverWindow == _recursiveDiff(NewInstance, CallRegion, options).script

----------------------------------------------------------------------------
\* C27: a _recursiveDiff call with a range that violates
\* 0 <= start <= end <= length on either side does not return a script.
C27_InvalidRangeAborts ==
    region \in InvalidRegions(oldTokens, newTokens) => pc # "_recursiveDiff returned"

----------------------------------------------------------------------------
\* C28: every diff call comes to an end, whatever the option record, jumpStep,
\* huntChunkSize and minMatchLength zero or negative included; and search
\* parameters that are invalid together give an empty anchor list, not a
\* failure.
InvalidSearchParams ==
    options.huntChunkSize <= 0 \/ options.minMatchLength < options.huntChunkSize

C28_EveryDiffTerminates ==
    /\ <>(pc \in {"returned", "threw"})
    /\ [](InvalidSearchParams => (foundAnchors = <<>> /\ pc # "threw"))

----------------------------------------------------------------------------
\* C29: on every valid region and under every configuration _recursiveDiff
\* returns normally, its 'negative length' failures are never raised; and
\* every snake (x, y, u, v) _findMiddleSnake hands it for a region of N old
\* and M new tokens satisfies 0 <= x <= u <= N and 0 <= y <= v <= M.
SnakeInsideRegion ==
    /\ 0 <= middleSnake.x /\ middleSnake.x <= middleSnake.u
    /\ middleSnake.u <= Len(RegionOld)
    /\ 0 <= middleSnake.y /\ middleSnake.y <= middleSnake.v
    /\ middleSnake.v <= Len(RegionNew)

C29_RecursiveDiffReturnsNormally ==
    /\ region \in ValidRegions(oldTokens, newTokens) => pc # "_recursiveDiff threw"
    /\ (pc = "_findMiddleSnake returned" /\ middleSnake.found) => SnakeInsideRegion

----------------------------------------------------------------------------
\* C30: in the corridor heuristic every iteration of the main loop that does
\* not end the walk moves the old cursor or the new cursor forward by at least
\* one position and neither back; so neither the stuck-detection flush nor
\* the iteration-cap flush is taken, and the operations emitted never number
\* more than N + M.
C30_EveryIterationAdvances ==
    /\ [][(pc = "_guidedCalculateDiff loop" /\ GuidedCondition /\ ~guidedState'.broke)
              => /\ guidedState'.oldPos >= guidedState.oldPos
                 /\ guidedState'.newPos >= guidedState.newPos
                 /\ guidedState'.oldPos + guidedState'.newPos
                        >= guidedState.oldPos + guidedState.newPos + 1]_vars
    /\ [](/\ ~guidedState.broke
          /\ Len(guidedState.ops) <= Len(RegionOld) + Len(RegionNew)
          /\ Len(script) <= Len(RegionOld) + Len(RegionNew))

\* The walk is in its loop after iterations that advanced the old cursor
\* alone, the new cursor alone and both together, with tokens still left.
C30_Witness ==
    /\ pc = "_guidedCalculateDiff loop"
    /\ GuidedCondition
    /\ Count(guidedState.ops, EQUAL) > 0
    /\ Count(guidedState.ops, REMOVE) > 0
    /\ Count(guidedState.ops, ADD) > 0
    /\ guidedState.oldPos > region.os /\ guidedState.newPos > region.ns

====
